---- MODULE Spec2Model ----
(***************************************************************************)
(* resultant.js: the Result / Option algebra (src/src/rustify/index.ts),   *)
(* the tuple bridge goify / goifySync (src/src/goify/index.ts and          *)
(* src/unnamed/part_000) and the match dispatcher, as a state machine.     *)
(*                                                                         *)
(* The state is the JavaScript heap of the objects the library creates     *)
(* (Result, Option and Promise instances, addressed by their index), the   *)
(* record of the last library call a caller made and of how it completed   *)
(* (returned a value or threw), and the list of the caller-supplied        *)
(* functions that call invoked.                                            *)
(***************************************************************************)
EXTENDS Integers, Sequences, FiniteSets, TLC

VARIABLES
    heap,    \* Seq of objects; an object's identity is its index
    last,    \* the last library call and its completion
    calls,   \* the caller-supplied functions the last call invoked, in order
    ncalls,  \* number of library calls made so far
    tasks    \* Seq of the caller's async tasks that take from an Option

vars == <<heap, last, calls, ncalls, tasks>>

(***************************************************************************)
(* Bounds of the model.                                                    *)
(***************************************************************************)
MaxCalls == 2

\* the most tasks a caller starts
MaxTasks == 3

(***************************************************************************)
(* JavaScript values.  Every value is a record tagged by its type; the     *)
(* payload field has a different name for every type.                      *)
(***************************************************************************)
Undef == [t |-> "undefined"]
Null == [t |-> "null"]
Num(n) == [t |-> "number", n |-> n]
Str(s) == [t |-> "string", s |-> s]
Bool(b) == [t |-> "boolean", b |-> b]
\* new Error(m)
ErrorObj(m) == [t |-> "Error", message |-> m]
\* a plain object { message: m }, m any value
MsgObj(m) == [t |-> "msgobject", msg |-> m]
\* a plain object { code: 1 } without a message property
CodeObj == [t |-> "codeobject"]
\* an object that refers to itself: JSON.stringify raises on it
CircularObj == [t |-> "circular"]
\* a function value
FuncVal == [t |-> "function"]
\* the BigInt 1n: JSON.stringify raises a TypeError on it
BigIntVal == [t |-> "bigint", n |-> 1]
\* a reference to the heap object with index i
Ref(i) == [t |-> "ref", id |-> i]
\* a two-element array [a, b]
Tuple(a, b) == [t |-> "tuple", a |-> a, b |-> b]
\* a plain data object with the fields of the record rec, e.g. {value, ok}
Plain(rec) == [t |-> "plain", rec |-> rec]

IsRef(v) == v.t = "ref"

\* obj.name, undefined when the object has no such property
Field(rec, name) == IF name \in DOMAIN rec THEN rec[name] ELSE Undef

(***************************************************************************)
(* Completion of a call: it returned v or threw v; h is the heap and c the *)
(* list of caller-supplied functions invoked when it completed.            *)
(***************************************************************************)
Ret(h, v, c) == [k |-> "return", v |-> v, h |-> h, c |-> c]
Throw(h, e, c) == [k |-> "throw", v |-> e, h |-> h, c |-> c]

\* new Cls(...): the object is appended to the heap, its reference returned
New(h, obj, c) == Ret(Append(h, obj), Ref(Len(h) + 1), c)

IsInstance(h, v, cls) == IsRef(v) /\ v.id \in 1..Len(h) /\ h[v.id].cls = cls

(***************************************************************************)
(* String conversions of the language: String(x) (also what a template     *)
(* literal applies to an interpolated value) and JSON.stringify(x).        *)
(***************************************************************************)
Digits == <<"0", "1", "2", "3", "4", "5", "6", "7", "8", "9">>

RECURSIVE NatToString(_)
NatToString(n) ==
    IF n < 10 THEN Digits[n + 1]
    ELSE NatToString(n \div 10) \o Digits[(n % 10) + 1]

NumToString(n) == IF n < 0 THEN "-" \o NatToString(-n) ELSE NatToString(n)

\* String(v)
JSString(v) ==
    CASE v.t = "undefined" -> "undefined"
      [] v.t = "null" -> "null"
      [] v.t = "number" -> NumToString(v.n)
      [] v.t = "string" -> v.s
      [] v.t = "boolean" -> (IF v.b THEN "true" ELSE "false")
      [] v.t = "Error" -> (IF v.message = "" THEN "Error" ELSE "Error: " \o v.message)
      [] v.t = "function" -> "function () { }"
      [] v.t = "bigint" -> NumToString(v.n)
      [] OTHER -> "[object Object]"

\* JSON.stringify(v): [k |-> "return", v |-> a string value or undefined], or
\* [k |-> "throw"] for a structure it cannot serialize
JSONstringify(v) ==
    CASE v.t = "undefined" -> [k |-> "return", v |-> Undef]
      [] v.t = "function" -> [k |-> "return", v |-> Undef]
      [] v.t = "null" -> [k |-> "return", v |-> Str("null")]
      [] v.t = "number" -> [k |-> "return", v |-> Str(NumToString(v.n))]
      [] v.t = "boolean" -> [k |-> "return", v |-> Str(JSString(v))]
      [] v.t = "string" -> [k |-> "return", v |-> Str("\"" \o v.s \o "\"")]
      [] v.t = "Error" -> [k |-> "return", v |-> Str("{}")]
      [] v.t = "msgobject" ->
            [k |-> "return",
             v |-> Str(IF v.msg.t \in {"undefined", "function"} THEN "{}"
                       ELSE IF v.msg.t = "number"
                            THEN "{\"message\":" \o NumToString(v.msg.n) \o "}"
                       ELSE IF v.msg.t = "string"
                            THEN "{\"message\":\"" \o v.msg.s \o "\"}"
                       ELSE "{\"message\":null}")]
      [] v.t = "codeobject" -> [k |-> "return", v |-> Str("{\"code\":1}")]
      [] v.t = "circular" -> [k |-> "throw", v |-> Undef]
      [] v.t = "bigint" -> [k |-> "throw", v |-> Undef]
      [] OTHER -> [k |-> "return", v |-> Str("{}")]

(***************************************************************************)
(* Error Normalizer.                                                       *)
(***************************************************************************)
\* the normalizer trying the serialization before the message property
convertErrorToString_JsonFirst(err) ==
    IF err.t = "string" THEN err
    ELSE IF err.t = "Error" THEN Str(err.message)
    ELSE LET j == JSONstringify(err)
         IN  IF j.k = "return" THEN j.v
             ELSE IF err.t = "msgobject" /\ err.msg.t = "string" THEN err.msg
             ELSE Str(JSString(err))

convertErrorToString(err) ==
    IF err.t = "string" THEN err
    ELSE IF err.t = "Error" THEN Str(err.message)
    ELSE IF err.t = "msgobject" /\ err.msg.t = "string" THEN err.msg
    ELSE LET j == JSONstringify(err)
         IN  IF j.k = "return" THEN j.v ELSE Str(JSString(err))

(***************************************************************************)
(* Promises.  An external promise (src = 0) is one the caller's code made; *)
(* the environment settles it.  A derived promise is the result of         *)
(* p.then(f) or p.catch(f) on the promise with index src: `on` names the   *)
(* library callback f, which runs as a reaction once src has settled.      *)
(***************************************************************************)
ExternalPromise ==
    [cls |-> "Promise", st |-> "pending", pv |-> Undef, src |-> 0, on |-> "none"]

DerivedPromise(src, on) ==
    [cls |-> "Promise", st |-> "pending", pv |-> Undef, src |-> src, on |-> on]

\* x instanceof Promise
IsPromise(h, v) == IsInstance(h, v, "Promise")

\* p.then(f) / p.catch(f), f the library callback named `on`
Chain(h, p, on, c) == New(h, DerivedPromise(p.id, on), c)

(***************************************************************************)
(* Caller-supplied functions.  A function is described by what it does     *)
(* when it is invoked with one argument x:                                 *)
(*   const(v)   returns v              id        returns x                 *)
(*   throw(e)   throws e               pending   returns a new promise     *)
(*   mkOk(v)    returns Ok(v)          mkErr(e)  returns Err(e)            *)
(*   mkSome(v)  returns Some(v)        mkNone    returns None()            *)
(***************************************************************************)
FnConst(v) == [fk |-> "const", fv |-> v]
FnId == [fk |-> "id"]
FnThrow(e) == [fk |-> "throw", fx |-> e]
FnPending == [fk |-> "pending"]
FnOk(v) == [fk |-> "mkOk", fv |-> v]
FnErr(e) == [fk |-> "mkErr", fx |-> e]
FnSome(v) == [fk |-> "mkSome", fv |-> v]
FnNone == [fk |-> "mkNone"]
NoFn == [fk |-> "none"]

\* new Option(value): null and undefined leave the slot unset
\* the constructor without the test for null
NewOptionObj_KeepsNull(value) == [cls |-> "Option", value |-> value]

NewOptionObj(value) ==
    [cls |-> "Option", value |-> IF value # Undef /\ value # Null THEN value ELSE Undef]

\* f(x); name is the parameter or handler the function was passed as
Apply(h, name, f, x, c) ==
    LET c2 == Append(c, [name |-> name, arg |-> x])
    IN  CASE f.fk = "const" -> Ret(h, f.fv, c2)
          [] f.fk = "id" -> Ret(h, x, c2)
          [] f.fk = "throw" -> Throw(h, f.fx, c2)
          [] f.fk = "pending" -> New(h, ExternalPromise, c2)
          [] f.fk = "mkOk" -> New(h, [cls |-> "Result", outcome |-> [value |-> f.fv]], c2)
          [] f.fk = "mkErr" -> New(h, [cls |-> "Result", outcome |-> [error |-> f.fx]], c2)
          [] f.fk = "mkSome" -> New(h, NewOptionObj(f.fv), c2)
          [] f.fk = "mkNone" -> New(h, NewOptionObj(Undef), c2)

(***************************************************************************)
(* Outcome and the Result class (the dual-mode variant).                   *)
(***************************************************************************)
isOk(outcome) ==
    "value" \in DOMAIN outcome \/ ("ok" \in DOMAIN outcome /\ outcome.ok = TRUE)

isErr(outcome) ==
    "error" \in DOMAIN outcome \/ ("ok" \in DOMAIN outcome /\ outcome.ok = FALSE)

\* new Result(outcome)
NewResult(h, outcome, c) == New(h, [cls |-> "Result", outcome |-> outcome], c)

Ok(h, value, c) == NewResult(h, [value |-> value], c)

Err(h, error, c) == NewResult(h, [error |-> error], c)

Result_isOk(h, r) == Ret(h, Bool(isOk(h[r].outcome)), <<>>)

Result_isErr(h, r) == Ret(h, Bool(isErr(h[r].outcome)), <<>>)

Result_isOkAnd(h, r, func) ==
    IF isOk(h[r].outcome)
    THEN Apply(h, "func", func, Field(h[r].outcome, "value"), <<>>)
    ELSE Ret(h, Bool(FALSE), <<>>)

Result_isErrAnd(h, r, func) ==
    IF isErr(h[r].outcome)
    THEN Apply(h, "func", func, Field(h[r].outcome, "error"), <<>>)
    ELSE Ret(h, Bool(FALSE), <<>>)

UnwrapMessage(error) == "Attempted to unwrap an 'Err' result: " \o JSString(error)

Result_unwrap(h, r) ==
    IF isOk(h[r].outcome)
    THEN Ret(h, Field(h[r].outcome, "value"), <<>>)
    ELSE Throw(h, ErrorObj(UnwrapMessage(Field(h[r].outcome, "error"))), <<>>)

Result_expect(h, r, message) ==
    IF isOk(h[r].outcome)
    THEN Ret(h, Field(h[r].outcome, "value"), <<>>)
    ELSE Throw(h, ErrorObj(message), <<>>)

\* unwrapOr written with the ?? operator: a held undefined gives the default
Result_unwrapOr_Nullish(h, r, defaultValue) ==
    IF isOk(h[r].outcome) /\ Field(h[r].outcome, "value") \notin {Undef, Null}
    THEN Ret(h, Field(h[r].outcome, "value"), <<>>)
    ELSE Ret(h, defaultValue, <<>>)

Result_unwrapOr(h, r, defaultValue) ==
    IF isOk(h[r].outcome)
    THEN Ret(h, Field(h[r].outcome, "value"), <<>>)
    ELSE Ret(h, defaultValue, <<>>)

Result_unwrapOrElse(h, r, onErrorFunc) ==
    IF isOk(h[r].outcome)
    THEN Ret(h, Field(h[r].outcome, "value"), <<>>)
    ELSE Apply(h, "onErrorFunc", onErrorFunc, Field(h[r].outcome, "error"), <<>>)

\* (the source quotes Err and Ok with backquotes, which a TLA+ string cannot hold)
UnwrapErrMessage == "Attempted to unwrap 'Err' from an 'Ok' result."

\* unwrapErr returning the (absent) error of a success instead of throwing
Result_unwrapErr_NoThrow(h, r) == Ret(h, Field(h[r].outcome, "error"), <<>>)

Result_unwrapErr(h, r) ==
    IF isErr(h[r].outcome)
    THEN Ret(h, Field(h[r].outcome, "error"), <<>>)
    ELSE Throw(h, ErrorObj(UnwrapErrMessage), <<>>)

Result_expectErr(h, r, message) ==
    IF isErr(h[r].outcome)
    THEN Ret(h, Field(h[r].outcome, "error"), <<>>)
    ELSE Throw(h, ErrorObj(message), <<>>)

\* map without the instanceof Promise test: a pending value is wrapped as it is
Result_map_NoDetection(h, r, transform) ==
    IF isOk(h[r].outcome)
    THEN LET a == Apply(h, "transform", transform, Field(h[r].outcome, "value"), <<>>)
         IN  IF a.k = "throw" THEN a
             ELSE Ok(a.h, a.v, a.c)
    ELSE NewResult(h, h[r].outcome, <<>>)

\* map that stores the transformed value in the receiver and returns it
Result_map_InPlace(h, r, transform) ==
    IF isOk(h[r].outcome)
    THEN LET a == Apply(h, "transform", transform, Field(h[r].outcome, "value"), <<>>)
         IN  IF a.k = "throw" THEN a
             ELSE IF IsPromise(a.h, a.v) THEN Chain(a.h, a.v, "map.then", a.c)
             ELSE Ret([a.h EXCEPT ![r].outcome = [value |-> a.v]], Ref(r), a.c)
    ELSE NewResult(h, h[r].outcome, <<>>)

\* map that loses the error of a failure
Result_map_DropsError(h, r, transform) ==
    IF isOk(h[r].outcome)
    THEN LET a == Apply(h, "transform", transform, Field(h[r].outcome, "value"), <<>>)
         IN  IF a.k = "throw" THEN a
             ELSE IF IsPromise(a.h, a.v) THEN Chain(a.h, a.v, "map.then", a.c)
             ELSE Ok(a.h, a.v, a.c)
    ELSE Err(h, Undef, <<>>)

Result_map(h, r, transform) ==
    IF isOk(h[r].outcome)
    THEN LET a == Apply(h, "transform", transform, Field(h[r].outcome, "value"), <<>>)
         IN  IF a.k = "throw" THEN a
             ELSE IF IsPromise(a.h, a.v) THEN Chain(a.h, a.v, "map.then", a.c)
             ELSE Ok(a.h, a.v, a.c)
    ELSE NewResult(h, h[r].outcome, <<>>)

\* mapErr that puts the transformed error in the success slot
Result_mapErr_OkSlot(h, r, transform) ==
    IF isErr(h[r].outcome)
    THEN LET a == Apply(h, "transform", transform, Field(h[r].outcome, "error"), <<>>)
         IN  IF a.k = "throw" THEN a
             ELSE IF IsPromise(a.h, a.v) THEN Chain(a.h, a.v, "map.then", a.c)
             ELSE Ok(a.h, a.v, a.c)
    ELSE Ok(h, Field(h[r].outcome, "value"), <<>>)

Result_mapErr(h, r, transform) ==
    IF isErr(h[r].outcome)
    THEN LET a == Apply(h, "transform", transform, Field(h[r].outcome, "error"), <<>>)
         IN  IF a.k = "throw" THEN a
             ELSE IF IsPromise(a.h, a.v) THEN Chain(a.h, a.v, "mapErr.then", a.c)
             ELSE Err(a.h, a.v, a.c)
    ELSE Ok(h, Field(h[r].outcome, "value"), <<>>)

\* and written through unwrap: a failure receiver raises instead of passing on
Result_and_ViaUnwrap(h, r, otherResult) ==
    IF Result_unwrap(h, r).k = "throw" THEN Result_unwrap(h, r) ELSE Ret(h, otherResult, <<>>)

Result_and(h, r, otherResult) ==
    IF isOk(h[r].outcome)
    THEN Ret(h, otherResult, <<>>)
    ELSE Err(h, Field(h[r].outcome, "error"), <<>>)

\* andThen that turns a failure into an empty success
Result_andThen_SwallowsError(h, r, transform) ==
    IF isOk(h[r].outcome)
    THEN Apply(h, "transform", transform, Field(h[r].outcome, "value"), <<>>)
    ELSE Ok(h, Undef, <<>>)

\* andThen that calls transform whatever the receiver holds
Result_andThen_Always(h, r, transform) ==
    Apply(h, "transform", transform, Field(h[r].outcome, "value"), <<>>)

Result_andThen(h, r, transform) ==
    IF isOk(h[r].outcome)
    THEN Apply(h, "transform", transform, Field(h[r].outcome, "value"), <<>>)
    ELSE Err(h, Field(h[r].outcome, "error"), <<>>)

\* or that returns the receiver itself when it is Ok
Result_or_ReturnsThis(h, r, otherResult) ==
    IF isOk(h[r].outcome)
    THEN Ret(h, Ref(r), <<>>)
    ELSE Ret(h, otherResult, <<>>)

Result_or(h, r, otherResult) ==
    IF isOk(h[r].outcome)
    THEN Ok(h, Field(h[r].outcome, "value"), <<>>)
    ELSE Ret(h, otherResult, <<>>)

Result_orElse(h, r, onErrorFunc) ==
    IF isOk(h[r].outcome)
    THEN Ok(h, Field(h[r].outcome, "value"), <<>>)
    ELSE Apply(h, "onErrorFunc", onErrorFunc, Field(h[r].outcome, "error"), <<>>)

\* new Error(message): the message is String(message), "" when undefined
NewError(message) == ErrorObj(IF message = Undef THEN "" ELSE JSString(message))

IsPrimitive(v) == v.t \in {"undefined", "null", "number", "string", "boolean"}

\* the properties of an object value, as a record
Props(v) ==
    CASE v.t = "plain" -> v.rec
      [] v.t = "Error" -> [message |-> Str(v.message)]
      [] v.t = "msgobject" -> [message |-> v.msg]
      [] OTHER -> <<>>

InOperatorMessage == "Cannot use 'in' operator to search for 'value'"

\* the callback of Result.From's then: the wire form to a Result; the in
\* operator raises a TypeError on a value that is no object
FromWire(h, result) ==
    IF IsPrimitive(result) THEN Throw(h, ErrorObj(InOperatorMessage), <<>>)
    ELSE IF isOk(Props(result)) THEN Ok(h, Field(Props(result), "value"), <<>>)
    ELSE Err(h, NewError(Field(Props(result), "error")), <<>>)

\* Result.From handing the wire object itself to the constructor
Result_From_WireAsOutcome(h, input) ==
    IF IsPromise(h, input)
    THEN LET t == Chain(h, input, "Result.From.then", <<>>)
         IN  Chain(t.h, t.v, "Result.From.catch", t.c)
    ELSE NewResult(h, Props(input), <<>>)

\* Result.From testing the value for truth instead of the slot for presence
Result_From_TruthyValue(h, input) ==
    IF IsPromise(h, input)
    THEN LET t == Chain(h, input, "Result.From.then", <<>>)
         IN  Chain(t.h, t.v, "Result.From.catch", t.c)
    ELSE IF Field(Props(input), "value") \notin {Undef, Null}
    THEN NewResult(h, [value |-> Field(Props(input), "value")], <<>>)
    ELSE NewResult(h, [error |-> NewError(Field(Props(input), "error"))], <<>>)

Result_From(h, input) ==
    IF IsPromise(h, input)
    THEN LET t == Chain(h, input, "Result.From.then", <<>>)
         IN  Chain(t.h, t.v, "Result.From.catch", t.c)
    ELSE IF isOk(Props(input))
    THEN NewResult(h, [value |-> Field(Props(input), "value")], <<>>)
    ELSE NewResult(h, [error |-> NewError(Field(Props(input), "error"))], <<>>)

(***************************************************************************)
(* The Option class (the dual-mode variant).                               *)
(***************************************************************************)
isNone(value) == value = Undef

isSome(value) == value # Undef

\* new Option(value)
NewOption(h, value, c) == New(h, NewOptionObj(value), c)

Some(h, value) == NewOption(h, value, <<>>)

None(h) == NewOption(h, Undef, <<>>)

Option_isSome(h, o) == Ret(h, Bool(isSome(h[o].value)), <<>>)

Option_isNone(h, o) == Ret(h, Bool(isNone(h[o].value)), <<>>)

Option_isSomeAnd(h, o, func) ==
    IF isSome(h[o].value)
    THEN Apply(h, "func", func, h[o].value, <<>>)
    ELSE Ret(h, Bool(FALSE), <<>>)

OptionUnwrapMessage == "Attempted to unwrap a 'None' Option. No value is present."

Option_unwrap(h, o) ==
    IF isSome(h[o].value)
    THEN Ret(h, h[o].value, <<>>)
    ELSE Throw(h, ErrorObj(OptionUnwrapMessage), <<>>)

Option_expect(h, o, message) ==
    IF isSome(h[o].value)
    THEN Ret(h, h[o].value, <<>>)
    ELSE Throw(h, ErrorObj(message), <<>>)

Option_unwrapOr(h, o, default) ==
    IF isSome(h[o].value)
    THEN Ret(h, h[o].value, <<>>)
    ELSE Ret(h, default, <<>>)

Option_unwrapOrElse(h, o, func) ==
    IF isSome(h[o].value)
    THEN Ret(h, h[o].value, <<>>)
    ELSE Apply(h, "func", func, Undef, <<>>)

Option_map(h, o, func) ==
    IF isSome(h[o].value)
    THEN LET a == Apply(h, "func", func, h[o].value, <<>>)
         IN  IF a.k = "throw" THEN a
             ELSE IF IsPromise(a.h, a.v) THEN Chain(a.h, a.v, "Option.map.then", a.c)
             ELSE NewOption(a.h, a.v, a.c)
    ELSE None(h)

Option_andThen(h, o, transform) ==
    IF isSome(h[o].value)
    THEN Apply(h, "transform", transform, h[o].value, <<>>)
    ELSE None(h)

Option_and(h, o, other) ==
    IF isSome(h[o].value)
    THEN Ret(h, other, <<>>)
    ELSE NewOption(h, Undef, <<>>)

\* or that copies a present receiver into a new Option
Option_or_Copy(h, o, other) ==
    IF isSome(h[o].value)
    THEN NewOption(h, h[o].value, <<>>)
    ELSE Ret(h, other, <<>>)

Option_or(h, o, other) ==
    IF isSome(h[o].value)
    THEN Ret(h, Ref(o), <<>>)
    ELSE Ret(h, other, <<>>)

\* xor that answers as or does when both operands are present
Option_xor_BothGivesThis(h, o, other) ==
    LET some == isSome(h[o].value)
    IN  IF ~some /\ ~isSome(h[other.id].value) THEN NewOption(h, Undef, <<>>)
        ELSE IF some THEN Ret(h, Ref(o), <<>>)
        ELSE Ret(h, other, <<>>)

Option_xor(h, o, other) ==
    LET some == isSome(h[o].value)
    IN  IF some = isSome(h[other.id].value) THEN NewOption(h, Undef, <<>>)
        ELSE IF some THEN Ret(h, Ref(o), <<>>)
        ELSE Ret(h, other, <<>>)

\* take that clears the slot before it reads it
Option_take_ClearFirst(h, o) ==
    LET n == NewOption(h, Undef, <<>>)
    IN  Ret([n.h EXCEPT ![o].value = Undef], n.v, <<>>)

\* take that forgets to clear the receiver
Option_take_NoClear(h, o) == NewOption(h, h[o].value, <<>>)

\* const option = new Option(this.value); this.value = undefined; return option
Option_take(h, o) ==
    LET n == NewOption(h, h[o].value, <<>>)
    IN  Ret([n.h EXCEPT ![o].value = Undef], n.v, <<>>)

Option_okOr(h, o, error) ==
    IF isSome(h[o].value)
    THEN NewResult(h, [value |-> h[o].value], <<>>)
    ELSE NewResult(h, [error |-> error], <<>>)

Option_okOrElse(h, o, func) ==
    IF isSome(h[o].value)
    THEN NewResult(h, [value |-> h[o].value], <<>>)
    ELSE LET a == Apply(h, "func", func, Undef, <<>>)
         IN  IF a.k = "throw" THEN a
             ELSE NewResult(a.h, [error |-> a.v], a.c)

\* Option.From without the catch on the promise chain
Option_From_NoCatch(h, input) ==
    IF IsPromise(h, input)
    THEN Chain(h, input, "Option.From.then", <<>>)
    ELSE LET o == NewOption(h, input, <<>>)
         IN  Ok(o.h, o.v, <<>>)

Option_From(h, input) ==
    IF IsPromise(h, input)
    THEN LET t == Chain(h, input, "Option.From.then", <<>>)
         IN  Chain(t.h, t.v, "Option.From.catch", t.c)
    ELSE LET o == NewOption(h, input, <<>>)
         IN  Ok(o.h, o.v, <<>>)

(***************************************************************************)
(* Builders and the tuple bridge.                                          *)
(***************************************************************************)
\* buildSerializableOutcome without the catch on the promise chain
buildSerializableOutcome_NoCatch(h, operation) ==
    LET a == Apply(h, "operation", operation, Undef, <<>>)
    IN  IF a.k = "throw"
        THEN Ret(a.h, Plain([error |-> convertErrorToString(a.v), ok |-> FALSE]), a.c)
        ELSE IF IsPromise(a.h, a.v)
        THEN Chain(a.h, a.v, "buildSerializableOutcome.then", a.c)
        ELSE Ret(a.h, Plain([value |-> a.v, ok |-> TRUE]), a.c)

buildSerializableOutcome(h, operation) ==
    LET a == Apply(h, "operation", operation, Undef, <<>>)
    IN  IF a.k = "throw"
        THEN Ret(a.h, Plain([error |-> convertErrorToString(a.v), ok |-> FALSE]), a.c)
        ELSE IF IsPromise(a.h, a.v)
        THEN LET t == Chain(a.h, a.v, "buildSerializableOutcome.then", a.c)
             IN  Chain(t.h, t.v, "buildSerializableOutcome.catch", t.c)
        ELSE Ret(a.h, Plain([value |-> a.v, ok |-> TRUE]), a.c)

\* buildResult normalizing a synchronous throw, as buildSerializableOutcome does
buildResult_Normalizing(h, operation) ==
    LET a == Apply(h, "operation", operation, Undef, <<>>)
    IN  IF a.k = "throw" THEN Err(a.h, convertErrorToString(a.v), a.c)
        ELSE IF IsPromise(a.h, a.v)
        THEN LET t == Chain(a.h, a.v, "buildResult.then", a.c)
             IN  Chain(t.h, t.v, "buildResult.catch", t.c)
        ELSE Ok(a.h, a.v, a.c)

\* buildResult without the instanceof test: a promise is wrapped as a value
buildResult_NoDetection(h, operation) ==
    LET a == Apply(h, "operation", operation, Undef, <<>>)
    IN  IF a.k = "throw" THEN Err(a.h, a.v, a.c) ELSE Ok(a.h, a.v, a.c)

buildResult(h, operation) ==
    LET a == Apply(h, "operation", operation, Undef, <<>>)
    IN  IF a.k = "throw" THEN Err(a.h, a.v, a.c)
        ELSE IF IsPromise(a.h, a.v)
        THEN LET t == Chain(a.h, a.v, "buildResult.then", a.c)
             IN  Chain(t.h, t.v, "buildResult.catch", t.c)
        ELSE Ok(a.h, a.v, a.c)

\* goify without the catch on the promise chain
goify_NoCatch(h, operation) ==
    LET a == Apply(h, "operation", operation, Undef, <<>>)
    IN  IF a.k = "throw" THEN Ret(a.h, Tuple(Null, a.v), a.c)
        ELSE IF IsPromise(a.h, a.v) THEN Chain(a.h, a.v, "goify.then", a.c)
        ELSE Ret(a.h, Tuple(a.v, Null), a.c)

\* the body of goify (src/src/goify/index.ts) once operation() completed as a
GoifyOn(a) ==
    IF a.k = "throw" THEN Ret(a.h, Tuple(Null, a.v), a.c)
    ELSE IF IsPromise(a.h, a.v)
    THEN LET t == Chain(a.h, a.v, "goify.then", a.c)
         IN  Chain(t.h, t.v, "goify.catch", t.c)
    ELSE Ret(a.h, Tuple(a.v, Null), a.c)

goify(h, operation) == GoifyOn(Apply(h, "operation", operation, Undef, <<>>))

\* goifySync with the slots of the failure tuple exchanged
TryTuple_Swapped(a) ==
    IF a.k = "throw" THEN Ret(a.h, Tuple(a.v, Null), a.c)
    ELSE Ret(a.h, Tuple(a.v, Null), a.c)

\* the body of goifySync once syncOperation() completed as a
TryTuple(a) ==
    IF a.k = "throw" THEN Ret(a.h, Tuple(Null, a.v), a.c)
    ELSE Ret(a.h, Tuple(a.v, Null), a.c)

goifySync(h, syncOperation) ==
    TryTuple(Apply(h, "syncOperation", syncOperation, Undef, <<>>))

(***************************************************************************)
(* The SafeResult variant (second half of src/src/rustify/index.ts): its   *)
(* SafeResult and Option classes, buildSafeResult, and the handler-less    *)
(* match / matchAsync that give a GoifyResult tuple.                       *)
(***************************************************************************)
\* new SafeResult(result)
NewSafeResult(h, result, c) == New(h, [cls |-> "SafeResult", result |-> result], c)

SafeResult_unwrap(h, r) ==
    IF "value" \in DOMAIN h[r].result
    THEN Ret(h, h[r].result.value, <<>>)
    ELSE Throw(h, ErrorObj(UnwrapMessage(Field(h[r].result, "error"))), <<>>)

\* new Option(value) of this variant: the value is stored as it is
NewSafeOption(h, value, c) == New(h, [cls |-> "SafeOption", value |-> value], c)

SafeSome(h, value) == NewSafeOption(h, value, <<>>)

SafeNone(h) == NewSafeOption(h, Undef, <<>>)

SafeOption_isSome(h, o) == Ret(h, Bool(isSome(h[o].value)), <<>>)

SafeOption_isNone(h, o) == Ret(h, Bool(isNone(h[o].value)), <<>>)

SafeOption_take(h, o) ==
    LET n == NewSafeOption(h, h[o].value, <<>>)
    IN  Ret([n.h EXCEPT ![o].value = Undef], n.v, <<>>)

SafeOption_expect(h, o, message) ==
    IF isSome(h[o].value)
    THEN Ret(h, h[o].value, <<>>)
    ELSE Throw(h, ErrorObj(message), <<>>)

UnhandledInputMessage == "Unhandled input type for match function."

\* the function match and matchAsync hand to goifySync / goify
MatchBody(h, input) ==
    IF IsInstance(h, input, "SafeOption") THEN SafeOption_expect(h, input.id, "Option is None")
    ELSE IF IsInstance(h, input, "SafeResult") THEN SafeResult_unwrap(h, input.id)
    ELSE Throw(h, ErrorObj(UnhandledInputMessage), <<>>)

\* match(input) of the SafeResult variant
matchTuple(h, input) == TryTuple(MatchBody(h, input))

\* a promise that is already settled, e.g. Promise.resolve(v)
SettledPromise(st, v) ==
    [cls |-> "Promise", st |-> st, pv |-> v, src |-> 0, on |-> "none"]

\* await x: the promise the continuation waits for
Awaited(h, x) == IF IsPromise(h, x) THEN Ret(h, x, <<>>) ELSE New(h, SettledPromise("fulfilled", x), <<>>)

\* matchAsync that returns the promise of its closure, without goify
matchAsync_NoGoify(h, input) ==
    LET w == Awaited(h, input)
    IN  Chain(w.h, w.v, "matchAsync.await", <<>>)

\* matchAsync(input): the async closure runs to its await and returns its
\* promise, and goify chains then / catch on it.  The promise of the async
\* matchAsync itself follows goify's and is identified with it.
matchAsync(h, input) ==
    LET w == Awaited(h, input)
    IN  GoifyOn(Chain(w.h, w.v, "matchAsync.await", <<>>))

\* Option.From of this variant, an async function: it awaits the value and
\* gives a promise of an Option
SafeOption_From(h, value) ==
    LET w == Awaited(h, value)
    IN  Chain(w.h, w.v, "SafeOption.From.await", <<>>)

\* goify of src/unnamed/part_000, an async function: a synchronous throw is
\* caught at once, anything else is awaited
goifyAsync(h, operation) ==
    LET a == Apply(h, "operation", operation, Undef, <<>>)
    IN  IF a.k = "throw"
        THEN New(a.h, SettledPromise("fulfilled", Tuple(Null, a.v)), a.c)
        ELSE LET w == Awaited(a.h, a.v)
             IN  Chain(w.h, w.v, "goifyAsync.await", a.c)

\* buildSafeResult(operation): a synchronous throw resolves the inner
\* promise at once; otherwise the executor awaits the value.  The promise
\* of the async buildSafeResult itself follows the inner one and is
\* identified with it.
buildSafeResult(h, operation) ==
    LET a == Apply(h, "operation", operation, Undef, <<>>)
    IN  IF a.k = "throw"
        THEN LET r == NewSafeResult(a.h, [error |-> convertErrorToString(a.v)], a.c)
             IN  New(r.h, SettledPromise("fulfilled", r.v), r.c)
        ELSE LET w == Awaited(a.h, a.v)
             IN  Chain(w.h, w.v, "buildSafeResult.await", a.c)

\* buildResult of the SafeResult variant: as buildSafeResult, with the plain
\* { value } / { error } object in place of the wrapper
buildResultAsync(h, operation) ==
    LET a == Apply(h, "operation", operation, Undef, <<>>)
    IN  IF a.k = "throw"
        THEN New(a.h, SettledPromise("fulfilled",
                                     Plain([error |-> convertErrorToString(a.v)])), a.c)
        ELSE LET w == Awaited(a.h, a.v)
             IN  Chain(w.h, w.v, "buildResultAsync.await", a.c)

(***************************************************************************)
(* Reactions: the library callbacks passed to then / catch.                *)
(***************************************************************************)
ThenCallbacks ==
    {"buildSerializableOutcome.then", "buildResult.then", "goify.then",
     "map.then", "mapErr.then", "Option.map.then", "Result.From.then", "Option.From.then"}

CatchCallbacks ==
    {"buildSerializableOutcome.catch", "buildResult.catch", "goify.catch",
     "Result.From.catch", "Option.From.catch"}

\* continuations after an await: they run on fulfilment and on rejection
AwaitCallbacks ==
    {"buildSafeResult.await", "matchAsync.await", "goifyAsync.await", "SafeOption.From.await",
     "buildResultAsync.await"}

\* the continuation named `on` resumed with the rejection x
Rejection(h, on, x) ==
    CASE on = "buildSafeResult.await" ->
            NewSafeResult(h, [error |-> convertErrorToString(x)], <<>>)
      [] on = "matchAsync.await" -> Throw(h, x, <<>>)
      [] on = "goifyAsync.await" -> Ret(h, Tuple(Null, x), <<>>)
      [] on = "SafeOption.From.await" -> NewSafeOption(h, Undef, <<>>)
      [] on = "buildResultAsync.await" ->
            Ret(h, Plain([error |-> convertErrorToString(x)]), <<>>)

\* the callback named `on` applied to x
Callback(h, on, x) ==
    CASE on = "buildSerializableOutcome.then" -> Ret(h, Plain([value |-> x, ok |-> TRUE]), <<>>)
      [] on = "buildSerializableOutcome.catch" ->
            Ret(h, Plain([error |-> convertErrorToString(x), ok |-> FALSE]), <<>>)
      [] on = "buildResult.then" -> Ok(h, x, <<>>)
      [] on = "buildResult.catch" -> Err(h, x, <<>>)
      [] on = "goify.then" -> Ret(h, Tuple(x, Null), <<>>)
      [] on = "goify.catch" -> Ret(h, Tuple(Null, x), <<>>)
      [] on = "map.then" -> Ok(h, x, <<>>)
      [] on = "mapErr.then" -> Err(h, x, <<>>)
      [] on = "Option.map.then" -> NewOption(h, x, <<>>)
      [] on = "Result.From.then" -> FromWire(h, x)
      [] on = "Result.From.catch" -> Err(h, NewError(convertErrorToString(x)), <<>>)
      [] on = "buildSafeResult.await" -> NewSafeResult(h, [value |-> x], <<>>)
      [] on = "matchAsync.await" -> MatchBody(h, x)
      [] on = "goifyAsync.await" -> Ret(h, Tuple(x, Null), <<>>)
      [] on = "SafeOption.From.await" -> NewSafeOption(h, x, <<>>)
      [] on = "Option.From.then" -> LET o == NewOption(h, x, <<>>) IN Ok(o.h, o.v, <<>>)
      [] on = "Option.From.catch" -> Err(h, x, <<>>)
      [] on = "buildResultAsync.await" -> Ret(h, Plain([value |-> x]), <<>>)

\* the heap after promise p took the state st with value v
Settled(h, p, st, v) == [h EXCEPT ![p].st = st, ![p].pv = v]

\* p settled as the completion run of a callback says
SettledBy(p, run) ==
    Settled(run.h, p, IF run.k = "return" THEN "fulfilled" ELSE "rejected", run.v)

\* the heap after the reaction of the derived promise p to its settled source
Reaction(h, p) ==
    LET s == h[h[p].src]
        on == h[p].on
    IN  IF on \in ThenCallbacks
        THEN IF s.st = "fulfilled" THEN SettledBy(p, Callback(h, on, s.pv))
             ELSE Settled(h, p, "rejected", s.pv)
        ELSE IF on \in CatchCallbacks
        THEN IF s.st = "rejected" THEN SettledBy(p, Callback(h, on, s.pv))
             ELSE Settled(h, p, "fulfilled", s.pv)
        ELSE IF on \in AwaitCallbacks
        THEN IF s.st = "fulfilled" THEN SettledBy(p, Callback(h, on, s.pv))
             ELSE SettledBy(p, Rejection(h, on, s.pv))
        ELSE Settled(h, p, s.st, s.pv)

(***************************************************************************)
(* match(input, matcher) of the dual-mode variant.  A matcher is a record  *)
(* of handlers; its DOMAIN is the set of properties the object has.        *)
(***************************************************************************)
isOptionMatch(h, o) == IsInstance(h, o, "Option")

isResultMatch(h, o) == IsInstance(h, o, "Result")

isOptionMatcher(m) == "Some" \in DOMAIN m /\ "None" \in DOMAIN m

isResultMatcher(m) == "Ok" \in DOMAIN m /\ "Err" \in DOMAIN m

MatchErrorMessage ==
    "MatchError: Input value type does not align with the provided handler, or a required handler function (e.g., Some, None, Ok, Err) is missing."

\* handler(inner), where inner is the completion of the argument expression
ApplyTo(name, f, inner) ==
    IF inner.k = "throw" THEN inner ELSE Apply(inner.h, name, f, inner.v, inner.c)

\* match that hands input.unwrap() to the Err handler
match_ErrViaUnwrap(h, input, matcher) ==
    IF isOptionMatch(h, input) /\ isOptionMatcher(matcher)
    THEN IF Option_isSome(h, input.id).v = Bool(TRUE)
         THEN ApplyTo("Some", matcher.Some, Option_unwrap(h, input.id))
         ELSE Apply(h, "None", matcher.None, Undef, <<>>)
    ELSE IF isResultMatch(h, input) /\ isResultMatcher(matcher)
    THEN IF Result_isOk(h, input.id).v = Bool(TRUE)
         THEN ApplyTo("Ok", matcher.Ok, Result_unwrap(h, input.id))
         ELSE ApplyTo("Err", matcher.Err, Result_unwrap(h, input.id))
    ELSE Throw(h, ErrorObj(MatchErrorMessage), <<>>)

\* match without its final throw: it falls off the end and returns undefined
match_NoThrow(h, input, matcher) ==
    IF isOptionMatch(h, input) /\ isOptionMatcher(matcher)
    THEN IF Option_isSome(h, input.id).v = Bool(TRUE)
         THEN ApplyTo("Some", matcher.Some, Option_unwrap(h, input.id))
         ELSE Apply(h, "None", matcher.None, Undef, <<>>)
    ELSE IF isResultMatch(h, input) /\ isResultMatcher(matcher)
    THEN IF Result_isOk(h, input.id).v = Bool(TRUE)
         THEN ApplyTo("Ok", matcher.Ok, Result_unwrap(h, input.id))
         ELSE ApplyTo("Err", matcher.Err, Result_unwrapErr(h, input.id))
    ELSE Ret(h, Undef, <<>>)

match(h, input, matcher) ==
    IF isOptionMatch(h, input) /\ isOptionMatcher(matcher)
    THEN IF Option_isSome(h, input.id).v = Bool(TRUE)
         THEN ApplyTo("Some", matcher.Some, Option_unwrap(h, input.id))
         ELSE Apply(h, "None", matcher.None, Undef, <<>>)
    ELSE IF isResultMatch(h, input) /\ isResultMatcher(matcher)
    THEN IF Result_isOk(h, input.id).v = Bool(TRUE)
         THEN ApplyTo("Ok", matcher.Ok, Result_unwrap(h, input.id))
         ELSE ApplyTo("Err", matcher.Err, Result_unwrapErr(h, input.id))
    ELSE Throw(h, ErrorObj(MatchErrorMessage), <<>>)

(***************************************************************************)
(* The inputs the callers of the model draw from.                          *)
(***************************************************************************)
Vals == {Num(1), Undef, Null, ErrorObj("boom")}

Messages == {"m"}

Transforms == {FnId, FnConst(Num(2)), FnThrow(ErrorObj("boom")), FnPending}

Binds == {FnOk(Num(2)), FnErr(Str("x")), FnThrow(ErrorObj("boom")), FnPending}

OptionBinds == {FnSome(Num(2)), FnNone, FnThrow(ErrorObj("boom")), FnPending}

Predicates == {FnConst(Bool(TRUE)), FnConst(Bool(FALSE)), FnThrow(ErrorObj("boom")), FnPending}

\* what an operation throws or its promise rejects with
Throwables == {ErrorObj("boom"), Str("x"), Null}

Operations == {FnConst(v) : v \in Vals} \cup {FnThrow(e) : e \in Throwables} \cup {FnPending}

\* the wire forms a caller may hand to Result.From: the two shapes of
\* SerializableOutcome, and the two the type also admits (ok at odds with
\* the slot)
WireForms ==
    {Plain([value |-> Num(1), ok |-> TRUE]), Plain([error |-> Str("x"), ok |-> FALSE]),
     Plain([value |-> Num(1), ok |-> FALSE]), Plain([error |-> Str("x"), ok |-> TRUE])}

Results(h) == {i \in 1..Len(h) : h[i].cls = "Result"}

Options(h) == {i \in 1..Len(h) : h[i].cls = "Option"}

Promises(h) == {i \in 1..Len(h) : h[i].cls = "Promise"}

NoCall == [op |-> "none", recv |-> Undef, arg |-> Undef, fn |-> NoFn,
           kind |-> "none", ret |-> Undef, pre |-> <<>>]

Init ==
    /\ heap = <<>>
    /\ last = NoCall
    /\ calls = <<>>
    /\ ncalls = 0
    /\ tasks = <<>>

\* A caller makes the library call op on receiver recv with argument arg
\* and function fn; comp is how the code completes it.
DoIn(pre, op, recv, arg, fn, comp) ==
    /\ ncalls < MaxCalls
    /\ heap' = comp.h
    /\ last' = [op |-> op, recv |-> recv, arg |-> arg, fn |-> fn,
                kind |-> comp.k, ret |-> comp.v, pre |-> pre]
    /\ calls' = comp.c
    /\ ncalls' = ncalls + 1
    /\ UNCHANGED tasks

Do(op, recv, arg, fn, comp) == DoIn(heap, op, recv, arg, fn, comp)

CallOk == \E v \in Vals : Do("Ok", Undef, v, NoFn, Ok(heap, v, <<>>))

CallErr == \E e \in Vals : Do("Err", Undef, e, NoFn, Err(heap, e, <<>>))

CallIsOk == \E r \in Results(heap) : Do("isOk", Ref(r), Undef, NoFn, Result_isOk(heap, r))

CallIsErr == \E r \in Results(heap) : Do("isErr", Ref(r), Undef, NoFn, Result_isErr(heap, r))

CallIsOkAnd ==
    \E r \in Results(heap), f \in Predicates :
        Do("isOkAnd", Ref(r), Undef, f, Result_isOkAnd(heap, r, f))

CallIsErrAnd ==
    \E r \in Results(heap), f \in Predicates :
        Do("isErrAnd", Ref(r), Undef, f, Result_isErrAnd(heap, r, f))

CallUnwrap == \E r \in Results(heap) : Do("unwrap", Ref(r), Undef, NoFn, Result_unwrap(heap, r))

CallExpect ==
    \E r \in Results(heap), m \in Messages :
        Do("expect", Ref(r), Str(m), NoFn, Result_expect(heap, r, m))

CallUnwrapOr ==
    \E r \in Results(heap), d \in Vals :
        Do("unwrapOr", Ref(r), d, NoFn, Result_unwrapOr(heap, r, d))

CallUnwrapOrElse ==
    \E r \in Results(heap), f \in Transforms :
        Do("unwrapOrElse", Ref(r), Undef, f, Result_unwrapOrElse(heap, r, f))

CallUnwrapErr ==
    \E r \in Results(heap) : Do("unwrapErr", Ref(r), Undef, NoFn, Result_unwrapErr(heap, r))

CallExpectErr ==
    \E r \in Results(heap), m \in Messages :
        Do("expectErr", Ref(r), Str(m), NoFn, Result_expectErr(heap, r, m))

CallMap ==
    \E r \in Results(heap), f \in Transforms :
        Do("map", Ref(r), Undef, f, Result_map(heap, r, f))

CallMapErr ==
    \E r \in Results(heap), f \in Transforms :
        Do("mapErr", Ref(r), Undef, f, Result_mapErr(heap, r, f))

\* the argument of and / or made in the call expression: Ok(2) or Err("x")
InlineResults(h) == {Ok(h, Num(2), <<>>), Err(h, Str("x"), <<>>)}

\* r.and(o) for a Result o at hand, and r.and(Ok(2)), r.and(Err("x"))
CallAnd ==
    \/ \E r \in Results(heap), o \in Results(heap) :
            Do("and", Ref(r), Ref(o), NoFn, Result_and(heap, r, Ref(o)))
    \/ \E r \in Results(heap), n \in InlineResults(heap) :
            Do("and", Ref(r), n.v, NoFn, Result_and(n.h, r, n.v))

CallOr ==
    \/ \E r \in Results(heap), o \in Results(heap) :
            Do("or", Ref(r), Ref(o), NoFn, Result_or(heap, r, Ref(o)))
    \/ \E r \in Results(heap), n \in InlineResults(heap) :
            Do("or", Ref(r), n.v, NoFn, Result_or(n.h, r, n.v))

CallAndThen ==
    \E r \in Results(heap), f \in Binds :
        Do("andThen", Ref(r), Undef, f, Result_andThen(heap, r, f))

CallOrElse ==
    \E r \in Results(heap), f \in Binds :
        Do("orElse", Ref(r), Undef, f, Result_orElse(heap, r, f))

CallBuildResult ==
    \E op \in Operations : Do("buildResult", Undef, Undef, op, buildResult(heap, op))

CallBuildSerializableOutcome ==
    \E op \in Operations :
        Do("buildSerializableOutcome", Undef, Undef, op, buildSerializableOutcome(heap, op))

CallGoify == \E op \in Operations : Do("goify", Undef, Undef, op, goify(heap, op))

CallGoifySync ==
    \E op \in Operations : Do("goifySync", Undef, Undef, op, goifySync(heap, op))

CallFrom ==
    \E input \in WireForms : Do("Result.From", Undef, input, NoFn, Result_From(heap, input))

\* Result.From(p) for a promise p the caller made
CallFromPromise ==
    LET p == New(heap, ExternalPromise, <<>>)
    IN  Do("Result.From", Undef, p.v, NoFn, Result_From(p.h, p.v))

(***************************************************************************)
(* The event loop: the environment settles an external promise; a          *)
(* reaction job settles a derived promise whose source has settled.        *)
(***************************************************************************)
Settlements ==
    {[st |-> "fulfilled", v |-> v] : v \in {Num(1), Null}}
        \cup {[st |-> "rejected", v |-> e] : e \in {ErrorObj("boom"), Null}}

SettlePromise ==
    \E p \in Promises(heap), o \in Settlements :
        /\ heap[p].src = 0
        /\ heap[p].st = "pending"
        /\ heap' = Settled(heap, p, o.st, o.v)
        /\ UNCHANGED <<last, calls, ncalls, tasks>>

\* the derived promises whose reaction is due
Ready(h) ==
    {p \in Promises(h) : h[p].src # 0 /\ h[p].st = "pending" /\ h[h[p].src].st # "pending"}

\* one reaction job runs.  A reaction writes its own promise only, so the
\* order among due reactions is immaterial; the oldest promise goes first.
React ==
    /\ Ready(heap) # {}
    /\ LET p == CHOOSE q \in Ready(heap) : \A r \in Ready(heap) : q <= r
       IN  heap' = Reaction(heap, p)
    /\ UNCHANGED <<last, calls, ncalls, tasks>>

\* the environment settles a promise handed to Result.From: it fulfils with a
\* wire form or with another value, or it rejects
SettleWire ==
    \E p \in Promises(heap),
       o \in {[st |-> "fulfilled", v |-> Plain([value |-> Num(1), ok |-> TRUE])],
              [st |-> "fulfilled", v |-> Plain([error |-> Str("x"), ok |-> FALSE])],
              [st |-> "fulfilled", v |-> Null],
              [st |-> "rejected", v |-> ErrorObj("boom")]} :
        /\ heap[p].src = 0
        /\ heap[p].st = "pending"
        /\ heap' = Settled(heap, p, o.st, o.v)
        /\ UNCHANGED <<last, calls, ncalls, tasks>>

CallSome == \E v \in Vals : Do("Some", Undef, v, NoFn, Some(heap, v))

CallNone == Do("None", Undef, Undef, NoFn, None(heap))

CallOptionIsSome ==
    \E o \in Options(heap) : Do("Option.isSome", Ref(o), Undef, NoFn, Option_isSome(heap, o))

CallOptionIsNone ==
    \E o \in Options(heap) : Do("Option.isNone", Ref(o), Undef, NoFn, Option_isNone(heap, o))

CallOptionIsSomeAnd ==
    \E o \in Options(heap), f \in Predicates :
        Do("Option.isSomeAnd", Ref(o), Undef, f, Option_isSomeAnd(heap, o, f))

CallOptionUnwrap ==
    \E o \in Options(heap) : Do("Option.unwrap", Ref(o), Undef, NoFn, Option_unwrap(heap, o))

CallOptionExpect ==
    \E o \in Options(heap), m \in Messages :
        Do("Option.expect", Ref(o), Str(m), NoFn, Option_expect(heap, o, m))

CallOptionUnwrapOr ==
    \E o \in Options(heap), d \in Vals :
        Do("Option.unwrapOr", Ref(o), d, NoFn, Option_unwrapOr(heap, o, d))

CallOptionUnwrapOrElse ==
    \E o \in Options(heap), f \in Transforms :
        Do("Option.unwrapOrElse", Ref(o), Undef, f, Option_unwrapOrElse(heap, o, f))

CallOptionMap ==
    \E o \in Options(heap), f \in Transforms :
        Do("Option.map", Ref(o), Undef, f, Option_map(heap, o, f))

CallOptionAndThen ==
    \E o \in Options(heap), f \in OptionBinds :
        Do("Option.andThen", Ref(o), Undef, f, Option_andThen(heap, o, f))

\* the argument of and / or / xor made in the call expression: Some(2) or
\* None()
InlineOptions(h) == {Some(h, Num(2)), None(h)}

CallOptionAnd ==
    \/ \E o \in Options(heap), other \in Options(heap) :
            Do("Option.and", Ref(o), Ref(other), NoFn, Option_and(heap, o, Ref(other)))
    \/ \E o \in Options(heap), n \in InlineOptions(heap) :
            Do("Option.and", Ref(o), n.v, NoFn, Option_and(n.h, o, n.v))

CallOptionOr ==
    \/ \E o \in Options(heap), other \in Options(heap) :
            Do("Option.or", Ref(o), Ref(other), NoFn, Option_or(heap, o, Ref(other)))
    \/ \E o \in Options(heap), n \in InlineOptions(heap) :
            Do("Option.or", Ref(o), n.v, NoFn, Option_or(n.h, o, n.v))

CallOptionXor ==
    \/ \E o \in Options(heap), other \in Options(heap) :
            Do("Option.xor", Ref(o), Ref(other), NoFn, Option_xor(heap, o, Ref(other)))
    \/ \E o \in Options(heap), n \in InlineOptions(heap) :
            Do("Option.xor", Ref(o), n.v, NoFn, Option_xor(n.h, o, n.v))

CallOptionTake ==
    \E o \in Options(heap) : Do("Option.take", Ref(o), Undef, NoFn, Option_take(heap, o))

CallOptionOkOr ==
    \E o \in Options(heap), e \in Vals :
        Do("Option.okOr", Ref(o), e, NoFn, Option_okOr(heap, o, e))

CallOptionOkOrElse ==
    \E o \in Options(heap), f \in {FnConst(Str("x")), FnThrow(ErrorObj("boom"))} :
        Do("Option.okOrElse", Ref(o), Undef, f, Option_okOrElse(heap, o, f))

(***************************************************************************)
(* match: the handler objects a caller may pass.  Every handler of one     *)
(* object has the same style: it returns its own name, returns its         *)
(* argument, or throws.                                                    *)
(***************************************************************************)
HandlerNames == {"Some", "None", "Ok", "Err"}

Handler(style, name) ==
    CASE style = "name" -> FnConst(Str(name))
      [] style = "id" -> FnId
      [] style = "throw" -> FnThrow(ErrorObj("boom"))

Matchers ==
    {[name \in K |-> Handler(style, name)] :
        K \in SUBSET HandlerNames, style \in {"name", "id", "throw"}}

\* what a caller may pass as input: a wrapper instance or any other value
MatchInputs(h) == {Ref(i) : i \in Results(h) \cup Options(h)} \cup {Num(1), Null}

CallMatch ==
    \E input \in MatchInputs(heap), matcher \in Matchers :
        Do("match", Undef, input, matcher, match(heap, input, matcher))

(***************************************************************************)
(* Specifications.                                                         *)
(***************************************************************************)
SafeOptions(h) == {i \in 1..Len(h) : h[i].cls = "SafeOption"}

SafeResults(h) == {i \in 1..Len(h) : h[i].cls = "SafeResult"}

CallSafeSome == \E v \in Vals : Do("SafeSome", Undef, v, NoFn, SafeSome(heap, v))

CallSafeNone == Do("SafeNone", Undef, Undef, NoFn, SafeNone(heap))

CallSafeOptionIsSome ==
    \E o \in SafeOptions(heap) :
        Do("SafeOption.isSome", Ref(o), Undef, NoFn, SafeOption_isSome(heap, o))

CallSafeOptionIsNone ==
    \E o \in SafeOptions(heap) :
        Do("SafeOption.isNone", Ref(o), Undef, NoFn, SafeOption_isNone(heap, o))

CallSafeOptionTake ==
    \E o \in SafeOptions(heap) :
        Do("SafeOption.take", Ref(o), Undef, NoFn, SafeOption_take(heap, o))

CallBuildSafeResult ==
    \E op \in Operations : Do("buildSafeResult", Undef, Undef, op, buildSafeResult(heap, op))

CallGoifyAsync ==
    \E op \in Operations : Do("goifyAsync", Undef, Undef, op, goifyAsync(heap, op))

\* what a caller may pass to the handler-less match
TupleMatchInputs(h) == {Ref(i) : i \in SafeOptions(h) \cup SafeResults(h)} \cup {Num(1)}

CallMatchTuple ==
    \E input \in TupleMatchInputs(heap) :
        Do("matchTuple", Undef, input, NoFn, matchTuple(heap, input))

\* matchAsync(p) for a promise p at hand (the one buildSafeResult returned,
\* say), and matchAsync(Promise.resolve(x)) for a wrapper x
CallMatchAsync ==
    \/ \E p \in Promises(heap) :
            Do("matchAsync", Undef, Ref(p), NoFn, matchAsync(heap, Ref(p)))
    \/ \E x \in TupleMatchInputs(heap) :
            LET q == New(heap, SettledPromise("fulfilled", x), <<>>)
            IN  Do("matchAsync", Undef, q.v, NoFn, matchAsync(q.h, q.v))

\* the Result algebra
Next ==
    \/ CallOk
    \/ CallErr
    \/ CallIsOk
    \/ CallIsErr
    \/ CallIsOkAnd
    \/ CallIsErrAnd
    \/ CallUnwrap
    \/ CallExpect
    \/ CallUnwrapOr
    \/ CallUnwrapOrElse
    \/ CallUnwrapErr
    \/ CallExpectErr
    \/ CallMap
    \/ CallMapErr
    \/ CallAnd
    \/ CallOr
    \/ CallAndThen
    \/ CallOrElse
    \/ SettlePromise
    \/ React

Spec == Init /\ [][Next]_vars

\* every way the public API makes a Result, and the combinators chained on it
ChainNext ==
    \/ CallOk
    \/ CallErr
    \/ CallBuildResult
    \/ CallFrom
    \/ CallFromPromise
    \/ CallSome
    \/ CallNone
    \/ CallOptionOkOr
    \/ CallOptionOkOrElse
    \/ CallMap
    \/ CallMapErr
    \/ CallAnd
    \/ CallOr
    \/ CallAndThen
    \/ CallOrElse
    \/ SettleWire
    \/ React

ChainSpec == Init /\ [][ChainNext]_vars

\* the operations of the two algebras that are no contract-violation point
AlgebraNext ==
    \/ CallOk
    \/ CallErr
    \/ CallSome
    \/ CallNone
    \/ CallMap
    \/ CallMapErr
    \/ CallAnd
    \/ CallOr
    \/ CallAndThen
    \/ CallOrElse
    \/ CallUnwrapOr
    \/ CallUnwrapOrElse
    \/ CallIsOkAnd
    \/ CallIsErrAnd
    \/ CallOptionIsSomeAnd
    \/ CallOptionUnwrapOr
    \/ CallOptionUnwrapOrElse
    \/ CallOptionMap
    \/ CallOptionAndThen
    \/ CallOptionAnd
    \/ CallOptionOr
    \/ CallOptionXor
    \/ CallOptionTake
    \/ CallOptionOkOr
    \/ CallOptionOkOrElse
    \/ SettlePromise
    \/ React

AlgebraSpec == Init /\ [][AlgebraNext]_vars

\* buildResult and the event loop
BuildNext ==
    \/ CallBuildResult
    \/ SettlePromise
    \/ React

BuildSpec == Init /\ [][BuildNext]_vars

\* the job queue of the event loop runs every reaction job that is ready
FairBuildSpec == BuildSpec /\ WF_vars(React)

\* the tuple bridge
GoifyNext ==
    \/ CallGoify
    \/ CallGoifySync
    \/ SettlePromise
    \/ React

GoifySpec == Init /\ [][GoifyNext]_vars

\* everything that makes a GoifyResult tuple
TupleNext ==
    \/ CallGoify
    \/ CallGoifySync
    \/ CallGoifyAsync
    \/ CallSafeSome
    \/ CallSafeNone
    \/ CallBuildSafeResult
    \/ CallMatchTuple
    \/ CallMatchAsync
    \/ SettlePromise
    \/ React

TupleSpec == Init /\ [][TupleNext]_vars

(***************************************************************************)
(* Tasks of the caller: async functions that await something and then call *)
(* take() on an Option.  A task runs from one suspension point to the      *)
(* next without interruption; take has no await in its body, so the whole  *)
(* call belongs to one such run.                                           *)
(***************************************************************************)
\* the caller starts a task on the Option o, which holds a value; the task
\* runs to its first await
Spawn ==
    \E o \in Options(heap) :
        /\ Len(tasks) < MaxTasks
        /\ heap[o].value # Undef
        /\ tasks' = Append(tasks, [pc |-> "awaiting", target |-> o,
                                   held |-> heap[o].value, got |-> Undef,
                                   saw |-> Undef])
        /\ UNCHANGED <<heap, last, calls, ncalls>>

\* the await of task i is over: the task is queued to run
TaskResume ==
    \E i \in 1..Len(tasks) :
        /\ tasks[i].pc = "awaiting"
        /\ tasks' = [tasks EXCEPT ![i].pc = "ready"]
        /\ UNCHANGED <<heap, last, calls, ncalls>>

\* task i runs: const got = option.take(), up to its next suspension point;
\* saw is what the Option it got held at that time
TaskTake ==
    \E i \in 1..Len(tasks) :
        /\ tasks[i].pc = "ready"
        /\ LET t == Option_take(heap, tasks[i].target)
           IN  /\ heap' = t.h
               /\ tasks' = [tasks EXCEPT ![i].pc = "done", ![i].got = t.v,
                                         ![i].saw = t.h[t.v.id].value]
        /\ UNCHANGED <<last, calls, ncalls>>

TakeNext ==
    \/ CallSome
    \/ Spawn
    \/ TaskResume
    \/ TaskTake

TakeSpec == Init /\ [][TakeNext]_vars

\* Ok(1).map(f): the first link of a chain, its receiver made in the call
\* expression
CallOkMap ==
    \E f \in Transforms :
        LET n == Ok(heap, Num(1), <<>>)
        IN  DoIn(n.h, "map", n.v, Undef, f, Result_map(n.h, n.v.id, f))

\* p.map(f) / p.andThen(f) on the Promise a pending link returned, without
\* awaiting it: a Promise has no such method, the call raises a TypeError
\* and f is not called
CallOnPending ==
    \E p \in Promises(heap), m \in {"map", "andThen"}, f \in {FnId} :
        /\ heap[p].src # 0
        /\ Do(m, Ref(p), Undef, f, Throw(heap, ErrorObj(m \o " is not a function"), <<>>))

\* chains of links: a link is awaited before the next one is called on the
\* Result it gave
PipelineNext ==
    \/ CallOk
    \/ CallBuildResult
    \/ CallOkMap
    \/ CallMap
    \/ CallAndThen
    \/ CallOnPending
    \/ SettlePromise
    \/ React

PipelineSpec == Init /\ [][PipelineNext]_vars

\* Option.From(x) for an immediate x and for a promise the caller made
CallOptionFrom ==
    \/ \E x \in Vals : Do("Option.From", Undef, x, NoFn, Option_From(heap, x))
    \/ LET p == New(heap, ExternalPromise, <<>>)
       IN  DoIn(p.h, "Option.From", Undef, p.v, NoFn, Option_From(p.h, p.v))

CallSafeOptionFrom ==
    \/ \E x \in Vals : Do("SafeOption.From", Undef, x, NoFn, SafeOption_From(heap, x))
    \/ LET p == New(heap, ExternalPromise, <<>>)
       IN  DoIn(p.h, "SafeOption.From", Undef, p.v, NoFn, SafeOption_From(p.h, p.v))

\* Option.From of both variants
OptionFromNext ==
    \/ CallOptionFrom
    \/ CallSafeOptionFrom
    \/ SettlePromise
    \/ React

OptionFromSpec == Init /\ [][OptionFromNext]_vars

\* the wire forms { value: v, ok: true } and { error: x, ok: false }
SuccessWires == {Plain([value |-> v, ok |-> TRUE]) : v \in Vals}

FailureWires == {Plain([error |-> Str(x), ok |-> FALSE]) : x \in {"x", ""}}

CallFromWire ==
    \E input \in SuccessWires \cup FailureWires :
        Do("Result.From", Undef, input, NoFn, Result_From(heap, input))

\* Result.From(buildSerializableOutcome(op)) in one expression
CallFromBuilt ==
    \E op \in Operations :
        LET b == buildSerializableOutcome(heap, op)
            r == Result_From(b.h, b.v)
        IN  DoIn(b.h, "Result.From", Undef, b.v, op, [r EXCEPT !.c = b.c])

\* the wire form and back
WireNext ==
    \/ CallBuildSerializableOutcome
    \/ CallFromWire
    \/ CallFromBuilt
    \/ CallUnwrap
    \/ CallUnwrapErr
    \/ SettlePromise
    \/ React

WireSpec == Init /\ [][WireNext]_vars

\* the combinators of Result and Option
CombinatorNext ==
    \/ CallOk
    \/ CallErr
    \/ CallSome
    \/ CallNone
    \/ CallMap
    \/ CallMapErr
    \/ CallAnd
    \/ CallOr
    \/ CallAndThen
    \/ CallOrElse
    \/ CallOptionMap
    \/ CallOptionAndThen
    \/ CallOptionAnd
    \/ CallOptionOr
    \/ CallOptionXor
    \/ CallOptionOkOr
    \/ CallOptionOkOrElse
    \/ SettlePromise
    \/ React

CombinatorSpec == Init /\ [][CombinatorNext]_vars

\* the Option class of both variants
OptionNext ==
    \/ CallSome
    \/ CallNone
    \/ CallOptionIsSome
    \/ CallOptionIsNone
    \/ CallOptionIsSomeAnd
    \/ CallOptionUnwrap
    \/ CallOptionExpect
    \/ CallOptionUnwrapOr
    \/ CallOptionUnwrapOrElse
    \/ CallOptionMap
    \/ CallOptionAndThen
    \/ CallOptionAnd
    \/ CallOptionOr
    \/ CallOptionXor
    \/ CallOptionTake
    \/ CallOptionOkOr
    \/ CallOptionOkOrElse
    \/ CallSafeSome
    \/ CallSafeNone
    \/ CallSafeOptionIsSome
    \/ CallSafeOptionIsNone
    \/ CallSafeOptionTake
    \/ SettlePromise
    \/ React

OptionSpec == Init /\ [][OptionNext]_vars

\* match(input, matcher) on the wrappers the constructors and Result.From make
MatchNext ==
    \/ CallOk
    \/ CallErr
    \/ CallSome
    \/ CallNone
    \/ CallFrom
    \/ CallMatch

MatchSpec == Init /\ [][MatchNext]_vars

(***************************************************************************)
(* Properties.                                                             *)
(***************************************************************************)

\* C1: every Result made through the public API (Ok, Err, buildResult,
\* Result.From, okOr, okOrElse and the combinators chained on them) is in
\* exactly one of the two states: isOk() and isErr() never agree.
C1_ExactlyOneState ==
    \A r \in Results(heap) : Result_isOk(heap, r).v # Result_isErr(heap, r).v

\* a Result that Result.From made from a wire form whose ok is at odds with
\* its slot, and a combinator applied after it
C1_Witness ==
    /\ last.op \in {"map", "mapErr", "andThen", "orElse", "and", "or"}
    /\ last.kind = "return"
    /\ isResultMatch(heap, last.ret)
    /\ \E i \in 1..Len(last.pre) : last.pre[i].cls = "Result" /\ last.recv = Ref(i)
    /\ last.pre[1].cls = "Result"
    /\ \E r \in Results(heap) : Result_isErr(heap, r).v = Bool(TRUE)
    /\ \E r \in Results(heap) : Result_isOk(heap, r).v = Bool(TRUE)

\* the receiver of the last call, as it was when the call was made
Receiver == last.pre[last.recv.id]

\* the object Ok(v) makes / the object Err(e) makes
OkOf(v) == Ok(<<>>, v, <<>>).h[1]
ErrOf(e) == Err(<<>>, e, <<>>).h[1]

OnResult == last.recv # Undef /\ Receiver.cls = "Result"

\* C2: for all v, e, d: Ok(v).isOk() is true, Ok(v).unwrap() and
\* Ok(v).unwrapOr(d) return v, Err(e).unwrapOr(d) returns d, and unwrapOr
\* never raises.
C2_OkUnwrapOr ==
    OnResult =>
        /\ \A v \in Vals :
              Receiver = OkOf(v) =>
                /\ last.op = "isOk" => last.kind = "return" /\ last.ret = Bool(TRUE)
                /\ last.op \in {"unwrap", "unwrapOr"} => last.kind = "return" /\ last.ret = v
        /\ \A e \in Vals :
              Receiver = ErrOf(e) /\ last.op = "unwrapOr" =>
                last.kind = "return" /\ last.ret = last.arg
        /\ last.op = "unwrapOr" => last.kind = "return"

\* Ok(undefined).unwrapOr(1) returned undefined
C2_Witness ==
    /\ OnResult
    /\ last.op = "unwrapOr"
    /\ Receiver = OkOf(Undef)
    /\ last.arg = Num(1)
    /\ last.ret = Undef

\* C3: unwrap() and expect(m) on a failure, and unwrapErr() and expectErr(m)
\* on a success, always raise; the error of expect / expectErr has exactly
\* the message m, and the error of unwrap carries String(failure value).
C3_WrongSlotRaises ==
    OnResult =>
        /\ (last.op \in {"unwrap", "expect"} /\ Result_isErr(last.pre, last.recv.id).v = Bool(TRUE))
              => last.kind = "throw"
        /\ (last.op \in {"unwrapErr", "expectErr"} /\ Result_isOk(last.pre, last.recv.id).v = Bool(TRUE))
              => last.kind = "throw"
        /\ (last.op \in {"expect", "expectErr"} /\ last.kind = "throw")
              => last.ret = ErrorObj(last.arg.s)
        /\ (last.op = "unwrap" /\ last.kind = "throw")
              => /\ last.ret.t = "Error"
                 /\ last.ret.message =
                       "Attempted to unwrap an 'Err' result: " \o JSString(Receiver.outcome.error)

\* Err(new Error("boom")).unwrap() threw an error naming "Error: boom"
C3_Witness ==
    /\ OnResult
    /\ last.op = "unwrap"
    /\ Receiver = ErrOf(ErrorObj("boom"))
    /\ last.kind = "throw"
    /\ last.ret = ErrorObj("Attempted to unwrap an 'Err' result: Error: boom")

\* the operations that are not contract-violation points
TotalOps ==
    {"map", "mapErr", "and", "or", "andThen", "orElse", "unwrapOr", "unwrapOrElse",
     "isOkAnd", "isErrAnd", "Option.isSomeAnd", "Option.unwrapOr", "Option.unwrapOrElse",
     "Option.map", "Option.andThen", "Option.and", "Option.or", "Option.xor",
     "Option.take", "Option.okOr", "Option.okOrElse"}

\* the last call returned a promise, and that promise has rejected
ReturnedPromiseRejected ==
    /\ last.kind = "return"
    /\ IsPromise(heap, last.ret)
    /\ heap[last.ret.id].st = "rejected"

Root(p) == IF heap[p].src = 0 THEN p ELSE heap[p].src

BuiltBy(b, p) ==
    /\ p \in Promises(heap)
    /\ heap[p].on = b \o ".catch"
    /\ heap[heap[p].src].on = b \o ".then"

\* the promise operation() returned, for the promise p a builder returned
OpPromise(p) == heap[heap[p].src].src

IsSettled(p) == heap[p].st # "pending"

\* what the last call of a builder returned for an operation that returned
\* a non-pending value, threw, or returned a pending value
C5_Modes ==
    last.op = "buildResult" =>
        /\ last.kind = "return"
        /\ last.fn.fk = "const" =>
              isResultMatch(heap, last.ret) /\ heap[last.ret.id] = OkOf(last.fn.fv)
        /\ last.fn.fk = "throw" =>
              isResultMatch(heap, last.ret) /\ Result_isErr(heap, last.ret.id).v = Bool(TRUE)
        /\ last.fn.fk = "pending" =>
              /\ BuiltBy("buildResult", last.ret.id)
              /\ OpPromise(last.ret.id) = Len(last.pre) + 1

\* a pending Result settles only after the operation's promise, to Ok of
\* the fulfilment value or to a failure
C5_SettlesAfter ==
    \A p \in Promises(heap) :
        BuiltBy("buildResult", p) /\ IsSettled(p) =>
            /\ IsSettled(OpPromise(p))
            /\ heap[p].st = "fulfilled"
            /\ isResultMatch(heap, heap[p].pv)
            /\ heap[OpPromise(p)].st = "fulfilled" =>
                  heap[heap[p].pv.id] = OkOf(heap[OpPromise(p)].pv)
            /\ heap[OpPromise(p)].st = "rejected" =>
                  Result_isErr(heap, heap[p].pv.id).v = Bool(TRUE)

\* the pending Results that have not settled although the promise of their
\* operation has; a promise leaves this set only by settling
C5_Lagging ==
    {p \in Promises(heap) :
        BuiltBy("buildResult", p) /\ IsSettled(OpPromise(p)) /\ ~IsSettled(p)}

\* C5: buildResult(op) returns an immediate Result when op returns a
\* non-pending value or throws and a pending Result when op returns a
\* pending value; the pending Result settles only after op's pending value
\* has settled, to a success holding the fulfilment value or to a failure,
\* and it eventually settles whenever op's pending value settles.
C5_BuildResultModes ==
    /\ [](C5_Modes /\ C5_SettlesAfter)
    /\ (C5_Lagging # {}) ~> (C5_Lagging = {})

\* a pending Result that settled to Ok(1) after the operation's promise
\* fulfilled with 1
C5_Witness ==
    /\ last.op = "buildResult"
    /\ last.fn = FnPending
    /\ IsPromise(heap, last.ret)
    /\ heap[OpPromise(last.ret.id)].st = "fulfilled"
    /\ IsSettled(last.ret.id)
    /\ heap[heap[last.ret.id].pv.id] = OkOf(Num(1))

\* the failure the Result that buildResult made holds, for a synchronous
\* throw (the last call) and for a rejection (a settled pending Result)
C6_FailureIs(wrap(_)) ==
    /\ (last.op = "buildResult" /\ last.fn.fk = "throw") =>
          heap[last.ret.id] = ErrOf(wrap(last.fn.fx))
    /\ \A p \in Promises(heap) :
          (BuiltBy("buildResult", p) /\ IsSettled(p) /\ heap[OpPromise(p)].st = "rejected") =>
              heap[heap[p].pv.id] = ErrOf(wrap(heap[OpPromise(p)].pv))

\* C6 as stated: the failure wrapped by buildResult is
\* convertErrorToString of the value op threw or rejected with.
C6_FailureNormalized == C6_FailureIs(convertErrorToString)

Unchanged(v) == v

\* C6 amended: the failure wrapped by buildResult is the very value op threw
\* or rejected with, not normalized; a synchronous throw and a rejection of
\* the same value produce the same wrapped failure.
C6_FailureIsThrownValue == C6_FailureIs(Unchanged)

\* buildResult of an operation whose promise rejected with new Error("boom"):
\* the Result holds the Error object
C6_Witness ==
    \E p \in Promises(heap) :
        /\ BuiltBy("buildResult", p)
        /\ IsSettled(p)
        /\ heap[OpPromise(p)].st = "rejected"
        /\ heap[heap[p].pv.id] = ErrOf(ErrorObj("boom"))

TuplesMade ==
    (IF last.kind = "return" /\ last.ret.t = "tuple" THEN {last.ret} ELSE {})
        \cup {heap[p].pv : p \in {q \in Promises(heap) :
                                    heap[q].st = "fulfilled" /\ heap[q].pv.t = "tuple"}}

\* C8 as stated: every tuple returned by goify, goifySync, match and
\* matchAsync has exactly one null element.
C8_ExactlyOneNull == \A t \in TuplesMade : (t.a = Null) # (t.b = Null)

\* what match(input) has to give: the value a Some or an Ok SafeResult
\* holds, or a failure (which is an Error object, never null)
MatchOutcome(h, input, t) ==
    IF IsInstance(h, input, "SafeOption") /\ h[input.id].value # Undef
    THEN [t |-> t, ok |-> TRUE, nul |-> h[input.id].value = Null]
    ELSE IF IsInstance(h, input, "SafeResult") /\ "value" \in DOMAIN h[input.id].result
    THEN [t |-> t, ok |-> TRUE, nul |-> h[input.id].result.value = Null]
    ELSE [t |-> t, ok |-> FALSE, nul |-> FALSE]

\* the tuple t a promise was fulfilled with, for the settled promise s it
\* reports on
AsyncOutcome(t, s) == [t |-> t, ok |-> s.st = "fulfilled", nul |-> s.pv = Null]

\* each tuple a call gave, with whether it stands for a success and whether
\* the payload (value or failure) is itself null
TupleOutcomes ==
    (IF last.op \in {"goify", "goifySync"} /\ last.fn.fk \in {"const", "throw"}
     THEN {[t |-> last.ret, ok |-> last.fn.fk = "const",
            nul |-> IF last.fn.fk = "const" THEN last.fn.fv = Null ELSE last.fn.fx = Null]}
     ELSE {})
    \cup (IF last.op = "goifySync" /\ last.fn.fk = "pending"
          THEN {[t |-> last.ret, ok |-> TRUE, nul |-> FALSE]} ELSE {})
    \cup (IF last.op = "goifyAsync" /\ last.fn.fk = "throw"
          THEN {[t |-> heap[last.ret.id].pv, ok |-> FALSE, nul |-> last.fn.fx = Null]}
          ELSE {})
    \cup (IF last.op = "matchTuple"
          THEN {MatchOutcome(last.pre, last.arg, last.ret)} ELSE {})
    \cup {AsyncOutcome(heap[p].pv, heap[OpPromise(p)]) :
            p \in {q \in Promises(heap) : BuiltBy("goify", q) /\ IsSettled(q)}}
    \cup {AsyncOutcome(heap[p].pv, heap[heap[p].src]) :
            p \in {q \in Promises(heap) : heap[q].on = "goifyAsync.await" /\ IsSettled(q)}}

\* C8 amended: every such tuple has a null second element on success and a
\* null first element on failure, so at least one element is null; both are
\* null exactly when the payload is itself null, and otherwise exactly one is.
C8_NullSlots ==
    /\ \A t \in TuplesMade : t.a = Null \/ t.b = Null
    /\ \A o \in TupleOutcomes :
          /\ o.t.t = "tuple"
          /\ o.ok => o.t.b = Null
          /\ ~o.ok => o.t.a = Null
          /\ (o.t.a = Null /\ o.t.b = Null) <=> o.nul

\* match(Some(null)) returned [null, null]
C8_Witness ==
    /\ last.op = "matchTuple"
    /\ last.kind = "return"
    /\ IsInstance(last.pre, last.arg, "SafeOption")
    /\ last.pre[last.arg.id].value = Null
    /\ last.ret = Tuple(Null, Null)

\* the matcher m has the handler pair for the type of input
Paired(h, input, m) ==
    \/ IsInstance(h, input, "Option") /\ {"Some", "None"} \subseteq DOMAIN m
    \/ IsInstance(h, input, "Result") /\ {"Ok", "Err"} \subseteq DOMAIN m

\* the handler that answers for the wrapper object o
HandlerFor(o) ==
    IF o.cls = "Option"
    THEN IF o.value # Undef THEN "Some" ELSE "None"
    ELSE IF "value" \in DOMAIN o.outcome THEN "Ok" ELSE "Err"

\* what that handler is to be given
HandlerArg(o) ==
    CASE HandlerFor(o) = "Some" -> o.value
      [] HandlerFor(o) = "None" -> Undef
      [] HandlerFor(o) = "Ok" -> o.outcome.value
      [] HandlerFor(o) = "Err" -> o.outcome.error

\* the last call ended as the caller's function f does when given x
EndedAs(f, x) ==
    CASE f.fk = "const" -> last.kind = "return" /\ last.ret = f.fv
      [] f.fk = "id" -> last.kind = "return" /\ last.ret = x
      [] f.fk = "throw" -> last.kind = "throw" /\ last.ret = f.fx

\* C9: match(input, handlers) on an Option invokes exactly one of Some (with
\* the held value) or None, and on a Result exactly one of Ok (with the
\* success value) or Err (with the failure value); the chosen handler is
\* invoked exactly once and match gives what that handler gives.
C9_MatchDispatch ==
    (last.op = "match" /\ Paired(last.pre, last.arg, last.fn)) =>
        LET o == last.pre[last.arg.id]
        IN  /\ calls = <<[name |-> HandlerFor(o), arg |-> HandlerArg(o)]>>
            /\ EndedAs(last.fn[HandlerFor(o)], HandlerArg(o))

\* match(Err(e), {Ok: x => x, Err: x => x}) called Err once, with e, and
\* returned e
C9_Witness ==
    /\ last.op = "match"
    /\ IsInstance(last.pre, last.arg, "Result")
    /\ last.pre[last.arg.id] = ErrOf(ErrorObj("boom"))
    /\ DOMAIN last.fn = {"Ok", "Err"}
    /\ last.fn.Err = FnId
    /\ calls = <<[name |-> "Err", arg |-> ErrorObj("boom")]>>
    /\ last.kind = "return"
    /\ last.ret = ErrorObj("boom")

\* C10: match(input, handlers) raises the MatchError, without invoking any
\* handler, whenever input is neither an Option nor a Result or the handler
\* object lacks a handler of the pair for the input's type.
C10_MatchError ==
    (last.op = "match" /\ ~Paired(last.pre, last.arg, last.fn)) =>
        /\ last.kind = "throw"
        /\ last.ret = ErrorObj(MatchErrorMessage)
        /\ calls = <<>>

\* match(Some(1), {Some, Ok, Err}) raised: None is missing
C10_Witness ==
    /\ last.op = "match"
    /\ IsInstance(last.pre, last.arg, "Option")
    /\ last.pre[last.arg.id].value = Num(1)
    /\ DOMAIN last.fn = {"Some", "Ok", "Err"}
    /\ last.kind = "throw"
    /\ last.ret.t = "Error"
    /\ calls = <<>>

\* C11: the handler-less match(input) returns [v, null] for a present Option
\* or a success SafeResult holding v, [null, Error("Option is None")] for an
\* absent Option, and for a failure SafeResult [null, e] with e an error
\* whose message equals the error string the SafeResult holds.
C11_TupleMatch ==
    (last.op = "matchTuple" /\ IsRef(last.arg)) =>
        LET o == last.pre[last.arg.id]
        IN  /\ last.kind = "return"
            /\ (o.cls = "SafeOption" /\ o.value # Undef) => last.ret = Tuple(o.value, Null)
            /\ (o.cls = "SafeOption" /\ o.value = Undef) =>
                  last.ret = Tuple(Null, ErrorObj("Option is None"))
            /\ (o.cls = "SafeResult" /\ "value" \in DOMAIN o.result) =>
                  last.ret = Tuple(o.result.value, Null)
            /\ (o.cls = "SafeResult" /\ "error" \in DOMAIN o.result) =>
                  last.ret = Tuple(Null, ErrorObj(JSString(o.result.error)))

\* C12: matchAsync(pendingInput) returns a pending tuple that never rejects;
\* it settles only after pendingInput has settled, to the tuple the
\* handler-less match gives for the value pendingInput fulfilled with, and to
\* [null, r] when pendingInput rejected with r.
C12_MatchAsync ==
    last.op = "matchAsync" =>
        /\ last.kind = "return"
        /\ IsPromise(heap, last.ret)
        /\ LET p == heap[last.ret.id]
               i == heap[last.arg.id]
           IN  /\ p.st # "rejected"
               /\ p.st # "pending" => i.st # "pending"
               /\ (p.st = "fulfilled" /\ i.st = "fulfilled") =>
                      p.pv = matchTuple(heap, i.pv).v
               /\ (p.st = "fulfilled" /\ i.st = "rejected") =>
                      p.pv = Tuple(Null, i.pv)

\* matchAsync(p) for a promise p that then rejected with Error("boom"): the
\* promise it returned is fulfilled with [null, Error("boom")]
C12_Witness ==
    /\ last.op = "matchAsync"
    /\ heap[last.arg.id].st = "rejected"
    /\ heap[last.arg.id].pv = ErrorObj("boom")
    /\ heap[last.ret.id].st = "fulfilled"
    /\ heap[last.ret.id].pv = Tuple(Null, ErrorObj("boom"))

IsTake == last.op \in {"Option.take", "SafeOption.take"}

\* the Option objects of both variants
AllOptions(h) == Options(h) \cup SafeOptions(h)

\* C13: take() returns an Option holding exactly what the receiver held
\* before the call (absent if the receiver was absent) and leaves the
\* receiver absent; an absent receiver stays absent, so any later take() on
\* it returns an absent Option.
C13_Take ==
    /\ [](IsTake =>
            /\ last.kind = "return"
            /\ last.ret.id \notin 1..Len(last.pre)
            /\ heap[last.ret.id].cls = Receiver.cls
            /\ heap[last.ret.id].value = Receiver.value
            /\ heap[last.recv.id].value = Undef)
    /\ [][\A o \in AllOptions(heap) : heap[o].value = Undef => heap'[o].value = Undef]_vars

\* Some(1).take() returned an Option holding 1 and the receiver is absent
C13_Witness ==
    /\ last.op = "Option.take"
    /\ Receiver.value = Num(1)
    /\ heap[last.ret.id].value = Num(1)
    /\ heap[last.recv.id].value = Undef

\* the tasks on the Option o that have made their call of take
Done(o) == {i \in 1..Len(tasks) : tasks[i].target = o /\ tasks[i].pc = "done"}

\* C14: for any number of tasks that call take() on the same Option holding
\* v, in any interleaving at their suspension points, exactly one call
\* returns an Option holding v and every other call returns an absent
\* Option; a take reads and clears the slot in one step, so no task runs in
\* between.
C14_OneTaker ==
    /\ [](\A o \in Options(heap) :
            Done(o) # {} =>
                /\ heap[o].value = Undef
                /\ \E i \in Done(o) :
                      /\ tasks[i].saw = tasks[i].held
                      /\ \A j \in Done(o) \ {i} : tasks[j].saw = Undef)
    /\ [][\A i \in 1..Len(tasks) :
            (tasks[i].pc = "ready" /\ tasks'[i].pc = "done") =>
                /\ heap'[tasks[i].target].value = Undef
                /\ heap'[tasks'[i].got.id].value = heap[tasks[i].target].value
                /\ tasks'[i].saw = heap[tasks[i].target].value
                /\ \A j \in (1..Len(tasks)) \ {i} : tasks'[j] = tasks[j]]_vars

\* three tasks took from the same Some(1): the second to run got the value
\* 1, the others an absent Option
C14_Witness ==
    /\ Len(tasks) = 3
    /\ \A i \in 1..3 : tasks[i].pc = "done" /\ tasks[i].target = tasks[1].target
    /\ tasks[2].saw = Num(1)
    /\ tasks[1].saw = Undef
    /\ tasks[3].saw = Undef

\* the last call returned an instance created by that call, which is neither
\* the receiver nor the argument
Fresh ==
    /\ IsRef(last.ret)
    /\ last.ret.id \notin 1..Len(last.pre)
    /\ last.ret # last.arg
    /\ last.ret # last.recv

Combinators ==
    {"map", "mapErr", "and", "or", "andThen", "orElse", "Option.map", "Option.andThen",
     "Option.and", "Option.or", "Option.xor", "Option.okOr", "Option.okOrElse"}

\* C15 as stated: every Result and Option combinator other than take returns
\* a newly created instance, distinct from the receiver and from every
\* argument instance.
C15_AlwaysFresh == (last.op \in Combinators /\ last.kind = "return") => Fresh

Present(o) == o.value # Undef

\* C15 amended: map, mapErr, andThen (with a fresh-returning function),
\* orElse, okOr and okOrElse return a newly created instance; and, or and xor
\* return one of their operands where the operand is the answer (Result.and
\* the argument on Ok, Result.or the argument on Err, Option.and the argument
\* when present, Option.or the receiver when present and else the argument,
\* Option.xor the one present operand) and a newly created instance otherwise.
C15_FreshOrOperand ==
    (last.op \in Combinators /\ last.kind = "return") =>
        CASE last.op = "and" ->
                IF isOk(Receiver.outcome) THEN last.ret = last.arg ELSE Fresh
          [] last.op = "or" ->
                IF isOk(Receiver.outcome) THEN Fresh ELSE last.ret = last.arg
          [] last.op = "Option.and" ->
                IF Present(Receiver) THEN last.ret = last.arg ELSE Fresh
          [] last.op = "Option.or" ->
                IF Present(Receiver) THEN last.ret = last.recv ELSE last.ret = last.arg
          [] last.op = "Option.xor" ->
                IF Present(Receiver) = Present(heap[last.arg.id]) THEN Fresh
                ELSE IF Present(Receiver) THEN last.ret = last.recv
                ELSE last.ret = last.arg
          [] OTHER -> Fresh

\* Some(1).or(other) returned the receiver itself
C15_Witness ==
    /\ last.op = "Option.or"
    /\ Receiver.value = Num(1)
    /\ last.arg # last.recv
    /\ last.ret = last.recv

\* C16: no Result operation changes its receiver: through any sequence of
\* inspection, unwrap and combinator calls on a Result (calls that raise
\* included) the Result holds what it held at construction.
C16_ResultImmutable ==
    /\ [](OnResult => heap[last.recv.id] = Receiver)
    /\ [][\A r \in Results(heap) : heap'[r] = heap[r]]_vars

\* Ok(1).unwrapErr() raised, and the receiver still is Ok(1)
C16_Witness ==
    /\ last.op = "unwrapErr"
    /\ last.kind = "throw"
    /\ Receiver = OkOf(Num(1))
    /\ heap[last.recv.id] = OkOf(Num(1))

RECURSIVE SettledUp(_, _)
\* the promise p of the heap h and every promise it derives from have settled
SettledUp(h, p) ==
    /\ h[p].st # "pending"
    /\ h[p].src = 0 \/ SettledUp(h, h[p].src)

\* the calls that are a link of a chain
Links == {"map", "mapErr", "andThen", "orElse"}

AnswersSome(o) ==
    IF heap[o].cls = "Option" THEN Option_isSome(heap, o).v = Bool(TRUE)
    ELSE SafeOption_isSome(heap, o).v = Bool(TRUE)

AnswersNone(o) ==
    IF heap[o].cls = "Option" THEN Option_isNone(heap, o).v = Bool(TRUE)
    ELSE SafeOption_isNone(heap, o).v = Bool(TRUE)

\* for every Option, at every time, exactly one of isSome() and isNone() is
\* true, and the calls made answer so
OneOfSomeNone ==
    /\ \A o \in AllOptions(heap) : AnswersSome(o) # AnswersNone(o)
    /\ last.op \in {"Option.isSome", "SafeOption.isSome"} =>
          last.ret = Bool(Receiver.value # Undef)
    /\ last.op \in {"Option.isNone", "SafeOption.isNone"} =>
          last.ret = Bool(Receiver.value = Undef)

\* C18 as stated: an Option is present exactly when it was built from a
\* value that is neither null nor undefined (Some(null), Some(undefined) and
\* None() are absent), and exactly one of isSome() and isNone() is true.
C18_PresentIffNotNullish ==
    /\ last.op \in {"Some", "SafeSome"} =>
          (AnswersSome(last.ret.id) <=> last.arg \notin {Null, Undef})
    /\ last.op \in {"None", "SafeNone"} => AnswersNone(last.ret.id)
    /\ OneOfSomeNone

\* C18 amended: in the dual-mode variant an Option is present exactly when
\* it was built from a value that is neither null nor undefined; in the
\* SafeResult variant exactly when it was built from a value that is not
\* undefined, so that Some(null) is present there; in both, None() is absent
\* and exactly one of isSome() and isNone() is true.
C18_PresentByVariant ==
    /\ last.op = "Some" => (AnswersSome(last.ret.id) <=> last.arg \notin {Null, Undef})
    /\ last.op = "SafeSome" => (AnswersSome(last.ret.id) <=> last.arg # Undef)
    /\ last.op \in {"None", "SafeNone"} => AnswersNone(last.ret.id)
    /\ OneOfSomeNone

\* Some(null) of the SafeResult variant is present
C18_Witness ==
    /\ last.op = "SafeSome"
    /\ last.arg = Null
    /\ AnswersSome(last.ret.id)
    /\ ~AnswersNone(last.ret.id)

\* absent for null and undefined, x otherwise
Collapsed(x) == IF x \in {Null, Undef} THEN Undef ELSE x

\* v is a success Result holding an Option with the slot s
OkOption(v, s) ==
    /\ IsInstance(heap, v, "Result")
    /\ "value" \in DOMAIN heap[v.id].outcome
    /\ IsRef(heap[v.id].outcome.value)
    /\ heap[heap[v.id].outcome.value.id].cls \in {"Option", "SafeOption"}
    /\ heap[heap[v.id].outcome.value.id].value = s

\* what Option.From gave for its last call, as C19 has it: a success Result
\* holding the Option for an immediate x; for a pending x a pending Result
\* that never rejects, settles after x, to the same for the value x
\* fulfilled with and to a failure Result carrying the rejection
FromGivesResult ==
    IF ~IsPromise(heap, last.arg)
    THEN last.kind = "return" /\ OkOption(last.ret, Collapsed(last.arg))
    ELSE /\ last.kind = "return"
         /\ IsPromise(heap, last.ret)
         /\ LET p == heap[last.ret.id]
                x == heap[last.arg.id]
            IN  /\ p.st # "rejected"
                /\ p.st # "pending" => x.st # "pending"
                /\ (p.st = "fulfilled" /\ x.st = "fulfilled") => OkOption(p.pv, Collapsed(x.pv))
                /\ (p.st = "fulfilled" /\ x.st = "rejected") =>
                      /\ IsInstance(heap, p.pv, "Result")
                      /\ heap[p.pv.id] = ErrOf(x.pv)

\* C19 as stated, for the Option.From of both variants.
C19_OptionFromResult == last.op \in {"Option.From", "SafeOption.From"} => FromGivesResult

\* what the Option.From of the SafeResult variant gave for its last call: a
\* pending Option that never rejects and settles to an Option holding the
\* value x is or fulfilled with (absent for undefined), and to an absent
\* Option when x rejected
SafeFromGivesOption ==
    /\ last.kind = "return"
    /\ IsPromise(heap, last.ret)
    /\ LET p == heap[last.ret.id]
           x == heap[p.src]
       IN  /\ p.st # "rejected"
           /\ p.st # "pending" => x.st # "pending"
           /\ IsPromise(heap, last.arg) => p.src = last.arg.id
           /\ ~IsPromise(heap, last.arg) => x.st = "fulfilled" /\ x.pv = last.arg
           /\ p.st = "fulfilled" =>
                 /\ IsInstance(heap, p.pv, "SafeOption")
                 /\ heap[p.pv.id].value = IF x.st = "fulfilled" THEN x.pv ELSE Undef

\* C19 amended: in the dual-mode variant Option.From is as stated; in the
\* SafeResult variant Option.From(x) always returns a pending Option, never a
\* Result: it never rejects and settles to an Option holding x (or what x
\* fulfilled with), absent for undefined, and to an absent Option when x
\* rejected.
C19_OptionFromByVariant ==
    /\ last.op = "Option.From" => FromGivesResult
    /\ last.op = "SafeOption.From" => SafeFromGivesOption

\* Option.From(p) for a promise p that rejected with Error("boom"): the
\* promise it returned is fulfilled with Err(Error("boom"))
C19_Witness ==
    /\ last.op = "Option.From"
    /\ IsPromise(heap, last.arg)
    /\ heap[last.arg.id].st = "rejected"
    /\ heap[last.ret.id].st = "fulfilled"
    /\ heap[heap[last.ret.id].pv.id] = ErrOf(ErrorObj("boom"))

\* the Result the last call returned is a success whose unwrap() returns v
SuccessOf(v) ==
    /\ last.kind = "return"
    /\ IsInstance(heap, last.ret, "Result")
    /\ Result_isOk(heap, last.ret.id).v = Bool(TRUE)
    /\ Result_unwrap(heap, last.ret.id) = Ret(heap, v, <<>>)

\* C20: for every non-pending v, Result.From({value: v, ok: true}) and
\* Result.From(buildSerializableOutcome(() => v)) are successes whose
\* unwrap() returns v, and for every string x,
\* Result.From({error: x, ok: false}) is a failure whose error has the
\* message x.
C20_FromWire ==
    /\ (last.op = "Result.From" /\ last.arg \in SuccessWires) => SuccessOf(last.arg.rec.value)
    /\ (last.op = "Result.From" /\ last.fn.fk = "const") =>
          /\ last.arg = Plain([value |-> last.fn.fv, ok |-> TRUE])
          /\ SuccessOf(last.fn.fv)
    /\ (last.op = "Result.From" /\ last.arg \in FailureWires) =>
          /\ last.kind = "return"
          /\ IsInstance(heap, last.ret, "Result")
          /\ Result_isErr(heap, last.ret.id).v = Bool(TRUE)
          /\ Result_unwrapErr(heap, last.ret.id) = Ret(heap, ErrorObj(last.arg.rec.error.s), <<>>)
    /\ (last.op = "unwrap" /\ Receiver.outcome = [value |-> Undef]) =>
          last.kind = "return" /\ last.ret = Undef

\* Result.From(buildSerializableOutcome(() => undefined)) is a success
\* holding undefined
C20_Witness ==
    /\ last.op = "Result.From"
    /\ last.fn = FnConst(Undef)
    /\ heap[last.ret.id] = OkOf(Undef)

(***************************************************************************)
(* The Error Normalizer and the serializable builder over every kind of    *)
(* failure value.                                                          *)
(***************************************************************************)
\* the values that reach a catch clause or reject a Promise
Failures ==
    {Str("x"), ErrorObj("boom"), MsgObj(Str("m")), MsgObj(Num(1)), CodeObj,
     CircularObj, BigIntVal, Null, Undef, Num(1), FuncVal}

\* convertErrorToString(err), as the catch clauses of the builders call it
CallConvertErrorToString ==
    \E err \in Failures :
        Do("convertErrorToString", Undef, err, NoFn, Ret(heap, convertErrorToString(err), <<>>))

\* buildSerializableOutcome(op) for an op that returns, throws any failure
\* value, or returns a Promise
CallSerialize ==
    \E op \in {FnConst(Num(1)), FnConst(Undef), FnPending} \cup {FnThrow(e) : e \in Failures} :
        Do("buildSerializableOutcome", Undef, Undef, op, buildSerializableOutcome(heap, op))

\* the Promise an operation returned fulfils, or rejects with any failure value
SettleOperation ==
    \E p \in Promises(heap),
       o \in {[st |-> "fulfilled", v |-> Num(1)]}
                \cup {[st |-> "rejected", v |-> e] : e \in Failures} :
        /\ heap[p].src = 0
        /\ heap[p].st = "pending"
        /\ heap' = Settled(heap, p, o.st, o.v)
        /\ UNCHANGED <<last, calls, ncalls, tasks>>

NormalizerNext ==
    \/ CallConvertErrorToString
    \/ CallSerialize
    \/ SettleOperation
    \/ React

NormalizerSpec == Init /\ [][NormalizerNext]_vars

\* v is { value, ok: true } or { error, ok: false } with a string error
IsSerializableOutcome(v) ==
    /\ v.t = "plain"
    /\ \/ DOMAIN v.rec = {"value", "ok"} /\ v.rec.ok = TRUE
       \/ DOMAIN v.rec = {"error", "ok"} /\ v.rec.ok = FALSE /\ v.rec.error.t = "string"

\* C21: every value buildSerializableOutcome produces, at once or as the
\* fulfilment of the Promise it returned, is { value, ok: true } without an
\* error field or { error, ok: false } without a value field, and the error
\* of the second form is a string.
C21_SerializableShape ==
    /\ (last.op = "buildSerializableOutcome" /\ ~IsPromise(heap, last.ret))
            => (last.kind = "return" /\ IsSerializableOutcome(last.ret))
    /\ \A p \in Promises(heap) :
            (heap[p].on = "buildSerializableOutcome.catch" /\ heap[p].st # "pending")
                => (heap[p].st = "fulfilled" /\ IsSerializableOutcome(heap[p].pv))

\* C22: convertErrorToString returns a string and raises nothing, whatever
\* the kind of its input.
C22_AlwaysString ==
    last.op = "convertErrorToString" => (last.kind = "return" /\ last.ret.t = "string")

\* typeof err === 'object' && err !== null && 'message' in err &&
\* typeof err.message === 'string', for a value that is no Error instance
HasStringMessage(err) == err.t = "msgobject" /\ err.msg.t = "string"

\* C23: convertErrorToString applies its rules in order and the first that
\* applies decides: a string is returned unchanged; else an Error gives its
\* message; else an object with a string message gives that message; else
\* the JSON serialization is returned; the String conversion is returned
\* only when the serialization raises.
C23_RuleOrder ==
    last.op = "convertErrorToString" =>
        LET err == last.arg
            json == JSONstringify(err)
        IN  /\ last.kind = "return"
            /\ err.t = "string" => last.ret = err
            /\ err.t = "Error" => last.ret = Str(err.message)
            /\ HasStringMessage(err) => last.ret = err.msg
            /\ (err.t \notin {"string", "Error"} /\ ~HasStringMessage(err) /\ json.k = "return")
                    => last.ret = json.v
            /\ last.ret = Str(JSString(err)) =>
                    (json.k = "throw" \/ err.t = "string" \/ json.v = Str(JSString(err)))
            /\ (err.t \notin {"string", "Error"} /\ ~HasStringMessage(err) /\ json.k = "throw")
                    => last.ret = Str(JSString(err))

\* the normalizer was given a BigInt, whose serialization raises, and fell
\* back to the String conversion
C23_Witness ==
    /\ last.op = "convertErrorToString"
    /\ last.arg = BigIntVal
    /\ last.ret = Str("1")
    /\ JSONstringify(last.arg).k = "throw"

(***************************************************************************)
(* Links: the combinators that take a caller-supplied function, and        *)
(* chains of them.                                                         *)
(***************************************************************************)
\* the functions of a chain: each returns a Result
ResultBinds == {FnOk(Num(2)), FnOk(Num(3)), FnErr(Str("x")), FnErr(Str("y"))}

\* r.andThen(f).andThen(g): the second link is called on the Result the
\* first one gave
AndThenChain(h, r, f, g) ==
    LET a == Result_andThen(h, r, f)
    IN  IF a.k = "throw" THEN a
        ELSE LET b == Result_andThen(a.h, a.v.id, g)
             IN  [b EXCEPT !.c = a.c \o b.c]

CallAndThenChain ==
    \E r \in Results(heap), f \in ResultBinds, g \in ResultBinds :
        Do("andThen.andThen", Ref(r), Undef, [fk |-> "chain", f |-> f, g |-> g],
           AndThenChain(heap, r, f, g))

LinkNext ==
    \/ CallOk
    \/ CallErr
    \/ CallIsOkAnd
    \/ CallIsErrAnd
    \/ CallMap
    \/ CallMapErr
    \/ CallAndThen
    \/ CallOrElse
    \/ CallUnwrapOrElse
    \/ CallAndThenChain
    \/ SettlePromise
    \/ React

LinkSpec == Init /\ [][LinkNext]_vars

\* the combinators whose function is for the success slot / the failure slot
OkSide == {"isOkAnd", "map", "andThen"}

ErrSide == {"isErrAnd", "mapErr", "orElse", "unwrapOrElse"}

\* what the receiver of the last call held when it was called
Held ==
    IF "value" \in DOMAIN Receiver.outcome THEN Receiver.outcome.value
    ELSE Receiver.outcome.error

\* the last call returned a Result made by the call
ReturnedNew(obj) ==
    /\ last.kind = "return"
    /\ IsRef(last.ret)
    /\ last.ret.id > Len(last.pre)
    /\ heap[last.ret.id] = obj

\* C24: a combinator invokes its function only when the receiver is in the
\* matching slot, and then exactly once with the held value: on the other
\* slot isOkAnd / isErrAnd return false, map / andThen return a failure with
\* the original error, mapErr / orElse a success with the original value and
\* unwrapOrElse the value itself.  In r.andThen(f).andThen(g) nothing is
\* invoked after the first failing link and the final Result holds that
\* first failure.
C24_MatchingSlotOnly ==
    /\ (OnResult /\ last.op \in OkSide \cup ErrSide) =>
          IF (last.op \in OkSide) = ("value" \in DOMAIN Receiver.outcome)
          THEN Len(calls) = 1 /\ calls[1].arg = Held
          ELSE /\ calls = <<>>
               /\ last.kind = "return"
               /\ last.op \in {"isOkAnd", "isErrAnd"} => last.ret = Bool(FALSE)
               /\ last.op \in {"map", "andThen"} => ReturnedNew(ErrOf(Held))
               /\ last.op \in {"mapErr", "orElse"} => ReturnedNew(OkOf(Held))
               /\ last.op = "unwrapOrElse" => last.ret = Held
    /\ (OnResult /\ last.op = "andThen.andThen") =>
          IF "error" \in DOMAIN Receiver.outcome
          THEN calls = <<>> /\ ReturnedNew(ErrOf(Held))
          ELSE IF last.fn.f.fk = "mkErr"
          THEN /\ Len(calls) = 1
               /\ calls[1].arg = Held
               /\ ReturnedNew(ErrOf(last.fn.f.fx))
          ELSE /\ Len(calls) = 2
               /\ calls[1].arg = Held
               /\ calls[2].arg = last.fn.f.fv
               /\ ReturnedNew(IF last.fn.g.fk = "mkErr" THEN ErrOf(last.fn.g.fx)
                              ELSE OkOf(last.fn.g.fv))

\* Ok(1).andThen(() => Err("x")).andThen(g): only the first function ran and
\* the chain ended in the failure "x"
C24_Witness ==
    /\ OnResult
    /\ last.op = "andThen.andThen"
    /\ Receiver = OkOf(Num(1))
    /\ last.fn.f = FnErr(Str("x"))
    /\ Len(calls) = 1
    /\ heap[last.ret.id] = ErrOf(Str("x"))

\* the Result r.map / r.mapErr makes around u: same slot as the receiver's
SameSlot(u) == IF last.op = "map" THEN OkOf(u) ELSE ErrOf(u)

CallOkPromise ==
    LET p == New(heap, ExternalPromise, <<>>)
    IN  Do("Ok", Undef, p.v, NoFn, Ok(p.h, p.v, <<>>))

\* r.map(x => x)
CallMapIdentity ==
    \E r \in Results(heap) : Do("map", Ref(r), Undef, FnId, Result_map(heap, r, FnId))

IdentityNext ==
    \/ CallOk
    \/ CallErr
    \/ CallOkPromise
    \/ CallMapIdentity
    \/ CallIsOk
    \/ CallIsErr
    \/ SettlePromise
    \/ React

IdentitySpec == Init /\ [][IdentityNext]_vars

\* the value the last call returned is a Result that answers isOk() and
\* isErr() as the receiver does and holds the same value or error
EqualToReceiver ==
    /\ last.kind = "return"
    /\ IsInstance(heap, last.ret, "Result")
    /\ Result_isOk(heap, last.ret.id).v = Result_isOk(last.pre, last.recv.id).v
    /\ Result_isErr(heap, last.ret.id).v = Result_isErr(last.pre, last.recv.id).v
    /\ Field(heap[last.ret.id].outcome, "value") = Field(Receiver.outcome, "value")
    /\ Field(heap[last.ret.id].outcome, "error") = Field(Receiver.outcome, "error")

MappedIdentity == OnResult /\ last.op = "map" /\ last.fn = FnId

\* C26: for every Result r, r.map(x => x) is observationally equal to r.
C26_MapIdentity == MappedIdentity => EqualToReceiver

\* the receiver is a success whose value is a Promise
HoldsPromise == "value" \in DOMAIN Receiver.outcome /\ IsPromise(last.pre, Receiver.outcome.value)

\* C26 (as the code has it): r.map(x => x) is observationally equal to r for
\* every Result r but a success that holds a Promise; for that one map
\* returns a Promise, which gives a success holding the fulfilment value
\* once the held Promise fulfilled.
C26_MapIdentityUnlessPromise ==
    MappedIdentity =>
        IF HoldsPromise
        THEN /\ last.kind = "return"
             /\ IsPromise(heap, last.ret)
             /\ heap[last.ret.id].src = Receiver.outcome.value.id
             /\ heap[last.ret.id].st = "fulfilled" =>
                   heap[heap[last.ret.id].pv.id] = OkOf(heap[Receiver.outcome.value.id].pv)
        ELSE EqualToReceiver

\* Ok(p).map(x => x) returned a Promise, p fulfilled with 1 and the Promise
\* gave Ok(1); Err(...).map(x => x) is covered by the other branch
C26_Witness ==
    /\ MappedIdentity
    /\ HoldsPromise
    /\ IsPromise(heap, last.ret)
    /\ heap[last.ret.id].st = "fulfilled"
    /\ heap[heap[last.ret.id].pv.id] = OkOf(Num(1))

(***************************************************************************)
(* andThen: the two groupings of a chain of two links.                     *)
(***************************************************************************)
\* (x => f(x).andThen(g))(x): the function the nested grouping passes
Nested(h, f, g, x) ==
    LET a == Apply(h, "f", f, x, <<>>)
    IN  IF a.k = "throw" THEN a
        ELSE LET b == Result_andThen(a.h, a.v.id, g)
             IN  [b EXCEPT !.c = a.c \o b.c]

\* r.andThen(x => f(x).andThen(g))
AndThenNested(h, r, f, g) ==
    IF isOk(h[r].outcome)
    THEN Nested(h, f, g, Field(h[r].outcome, "value"))
    ELSE Err(h, Field(h[r].outcome, "error"), <<>>)

\* the caller evaluates [r.andThen(f).andThen(g), r.andThen(x => f(x).andThen(g))]
CallAndThenBoth ==
    \E r \in Results(heap), f \in ResultBinds, g \in ResultBinds :
        LET l == AndThenChain(heap, r, f, g)
            n == AndThenNested(l.h, r, f, g)
        IN  Do("andThen.both", Ref(r), Undef, [fk |-> "chain", f |-> f, g |-> g],
               Ret(n.h, Tuple(l.v, n.v), l.c \o n.c))

AssocNext ==
    \/ CallOk
    \/ CallErr
    \/ CallAndThenChain
    \/ CallAndThenBoth

AssocSpec == Init /\ [][AssocNext]_vars

\* the Results a and b answer isOk() / isErr() alike and hold the same value
\* or error
ObsEqual(h, a, b) ==
    /\ IsInstance(h, a, "Result")
    /\ IsInstance(h, b, "Result")
    /\ Result_isOk(h, a.id).v = Result_isOk(h, b.id).v
    /\ Result_isErr(h, a.id).v = Result_isErr(h, b.id).v
    /\ Field(h[a.id].outcome, "value") = Field(h[b.id].outcome, "value")
    /\ Field(h[a.id].outcome, "error") = Field(h[b.id].outcome, "error")

\* C27: for every Result r and all f, g that return Results,
\* r.andThen(f).andThen(g) and r.andThen(x => f(x).andThen(g)) are
\* observationally equal: same state, same held value or error.
C27_AndThenAssociative ==
    last.op = "andThen.both" =>
        /\ last.kind = "return"
        /\ ObsEqual(heap, last.ret.a, last.ret.b)

\* Ok(1) with f giving Ok(2) and g giving Err("y"): both groupings ran f and
\* g and ended as a failure holding "y", in two distinct instances
C27_Witness ==
    /\ last.op = "andThen.both"
    /\ Receiver = OkOf(Num(1))
    /\ last.fn.f = FnOk(Num(2))
    /\ last.fn.g = FnErr(Str("y"))
    /\ Len(calls) = 4
    /\ last.ret.a # last.ret.b
    /\ heap[last.ret.a.id] = ErrOf(Str("y"))
    /\ heap[last.ret.b.id] = ErrOf(Str("y"))

(***************************************************************************)
(* The operands of Option.and / or / xor, and take() on what they return.  *)
(***************************************************************************)
\* a.and(b), a.or(b) or a.xor(b), by the name of the method
Combine(h, m, a, b) ==
    CASE m = "and" -> Option_and(h, a, b)
      [] m = "or" -> Option_or(h, a, b)
      [] m = "xor" -> Option_xor(h, a, b)

\* c = a.or(b) (or a.xor(b), a.and(b)) followed by c.take(), for an Option b
\* at hand or made in the call expression; the caller keeps [c, c.take()]
CallCombineTake ==
    \E a \in Options(heap), m \in {"and", "or", "xor"},
       n \in InlineOptions(heap) \cup {Ret(heap, Ref(b), <<>>) : b \in Options(heap)} :
        LET c == Combine(n.h, m, a, n.v)
            t == Option_take(c.h, c.v.id)
        IN  DoIn(n.h, m \o ".take", Ref(a), n.v, NoFn, Ret(t.h, Tuple(c.v, t.v), <<>>))

OperandNext ==
    \/ CallSome
    \/ CallNone
    \/ CallOptionAnd
    \/ CallOptionOr
    \/ CallOptionXor
    \/ CallOptionTake
    \/ CallOptionIsSome
    \/ CallOptionIsNone
    \/ CallOptionUnwrap
    \/ CallOptionUnwrapOr
    \/ CallOptionOkOr
    \/ CallCombineTake

OperandSpec == Init /\ [][OperandNext]_vars

\* o.isSome() in the heap h
Answers(h, o) == Option_isSome(h, o.id).v = Bool(TRUE)

\* C28: a.xor(b) is present exactly when exactly one of a and b is present,
\* and then it holds that one's value; it is absent when both or neither
\* are present.
C28_Xor ==
    last.op = "Option.xor" =>
        /\ last.kind = "return"
        /\ IsInstance(heap, last.ret, "Option")
        /\ Answers(heap, last.ret) = (Answers(heap, last.recv) # Answers(heap, last.arg))
        /\ (Answers(heap, last.recv) /\ ~Answers(heap, last.arg))
                => heap[last.ret.id].value = heap[last.recv.id].value
        /\ (~Answers(heap, last.recv) /\ Answers(heap, last.arg))
                => heap[last.ret.id].value = heap[last.arg.id].value

\* Some(1).xor(Some(2)) is absent, and both operands still hold their values
C28_Witness ==
    /\ last.op = "Option.xor"
    /\ heap[last.recv.id].value = Num(1)
    /\ heap[last.arg.id].value = Num(2)
    /\ ~Answers(heap, last.ret)

TookFromCombined == last.op \in {"and.take", "or.take", "xor.take"}

\* C29: take() changes only its receiver: after c = a.or(b), c = a.xor(b) or
\* c = a.and(b), c.take() changes neither whether a or b is present nor the
\* value each holds.
C29_OperandsKept ==
    TookFromCombined =>
        /\ heap[last.recv.id] = last.pre[last.recv.id]
        /\ heap[last.arg.id] = last.pre[last.arg.id]

\* the operand that a.and(b) / a.or(b) / a.xor(b) returns, 0 when it returns
\* a new Option
Returned(m, a, b) ==
    LET pa == isSome(last.pre[a].value)
        pb == isSome(last.pre[b].value)
    IN  CASE m = "and.take" -> IF pa THEN b ELSE 0
          [] m = "or.take" -> IF pa THEN a ELSE b
          [] m = "xor.take" -> IF pa = pb THEN 0 ELSE IF pa THEN a ELSE b

\* C29 (as the code has it): take() changes only the object it is called
\* on.  and / or / xor return one of their operands where that operand is
\* the answer, so c is then a or b itself and c.take() leaves that operand
\* absent, handing its value to the Option it returns; every other object,
\* and both operands when c is a new Option, stay as they were.
C29_OnlyReceiverChanges ==
    TookFromCombined =>
        LET c == last.ret.a.id
            r == Returned(last.op, last.recv.id, last.arg.id)
        IN  /\ last.kind = "return"
            /\ \A x \in 1..Len(last.pre) : x # c => heap[x] = last.pre[x]
            /\ heap[c].value = Undef
            /\ r # 0 => (c = r /\ heap[last.ret.b.id].value = last.pre[r].value)
            /\ r = 0 => (c > Len(last.pre) /\ heap[last.ret.b.id].value = Undef)

\* c = Some(1).or(Some(2)); c.take(): c is the receiver, which is now absent,
\* and the Option take returned holds 1
C29_Witness ==
    /\ last.op = "or.take"
    /\ last.pre[last.recv.id].value = Num(1)
    /\ last.pre[last.arg.id].value = Num(2)
    /\ last.ret.a = last.recv
    /\ heap[last.recv.id].value = Undef
    /\ heap[last.ret.b.id].value = Num(1)
    /\ heap[last.arg.id].value = Num(2)

(***************************************************************************)
(* The builders and the tuple bridge of both variants: what becomes of a   *)
(* failure of the operation.                                               *)
(***************************************************************************)
\* what the operation handed to a builder does: it returns a value, throws
\* an Error or a string, or returns a Promise
CaptureOperations ==
    {FnConst(Num(1)), FnThrow(ErrorObj("boom")), FnThrow(Str("x")), FnPending}

\* the builder named b called on operation
Build(h, b, operation) ==
    CASE b = "buildResult" -> buildResult(h, operation)
      [] b = "buildSerializableOutcome" -> buildSerializableOutcome(h, operation)
      [] b = "buildSafeResult" -> buildSafeResult(h, operation)
      [] b = "buildResultAsync" -> buildResultAsync(h, operation)
      [] b = "goify" -> goify(h, operation)
      [] b = "goifyAsync" -> goifyAsync(h, operation)
      [] b = "goifySync" -> goifySync(h, operation)

Builders ==
    {"buildResult", "buildSerializableOutcome", "buildSafeResult", "buildResultAsync",
     "goify", "goifyAsync", "goifySync"}

CallBuilder ==
    \E b \in Builders, op \in CaptureOperations :
        Do(b, Undef, Undef, op, Build(heap, b, op))

\* the Promise an operation returned fulfils with 1 or rejects with Error("boom")
SettleCaptured ==
    \E p \in Promises(heap),
       o \in {[st |-> "fulfilled", v |-> Num(1)], [st |-> "rejected", v |-> ErrorObj("boom")]} :
        /\ heap[p].src = 0
        /\ heap[p].st = "pending"
        /\ heap' = Settled(heap, p, o.st, o.v)
        /\ UNCHANGED <<last, calls, ncalls, tasks>>

CaptureNext ==
    \/ CallBuilder
    \/ SettleCaptured
    \/ React

CaptureSpec == Init /\ [][CaptureNext]_vars


\* v is the failure form of the builder b around the failure e
IsFailureOf(h, b, v, e) ==
    CASE b = "buildResult" -> IsInstance(h, v, "Result") /\ h[v.id].outcome = [error |-> e]
      [] b = "buildSerializableOutcome" ->
            v = Plain([error |-> convertErrorToString(e), ok |-> FALSE])
      [] b = "buildSafeResult" ->
            /\ IsInstance(h, v, "SafeResult")
            /\ h[v.id].result = [error |-> convertErrorToString(e)]
      [] b = "buildResultAsync" -> v = Plain([error |-> convertErrorToString(e)])
      [] OTHER -> v = Tuple(Null, e)

\* the last call has given its wrapper or tuple: at once, or its Promise settled
Delivered == ~IsPromise(heap, last.ret) \/ heap[last.ret.id].st # "pending"

\* the wrapper or tuple the last call gave
Final == IF IsPromise(heap, last.ret) THEN heap[last.ret.id].pv ELSE last.ret

\* the Promise the operation of the last call returned
OperationPromise == Len(last.pre) + 1

\* the operation of the last call failed: it threw, or its Promise rejected
OperationFailed ==
    \/ last.fn.fk = "throw"
    \/ last.fn.fk = "pending" /\ heap[OperationPromise].st = "rejected"

OperationFailure ==
    IF last.fn.fk = "throw" THEN last.fn.fx ELSE heap[OperationPromise].pv

\* the Promises the last call handed to its caller: the one it returned, or
\* the one in the value slot of the tuple it returned
HandedPromises ==
    IF IsPromise(heap, last.ret) THEN {last.ret.id}
    ELSE IF last.ret.t = "tuple" /\ IsPromise(heap, last.ret.a) THEN {last.ret.a.id}
    ELSE {}

\* C30: buildResult, buildSerializableOutcome, buildSafeResult, goify and
\* goifySync invoke op exactly once, never raise to their caller, and any
\* pending value they return never rejects, whatever op does: every failure
\* of op ends up inside the returned wrapper or tuple.
C30_EveryFailureCaptured ==
    last.op \in Builders =>
        /\ Len(calls) = 1
        /\ last.kind = "return"
        /\ \A p \in HandedPromises : heap[p].st # "rejected"
        /\ (OperationFailed /\ Delivered) =>
                IsFailureOf(heap, last.op, Final, OperationFailure)

\* goifySync was given an operation that returned a Promise
SyncOnPending == last.op = "goifySync" /\ last.fn.fk = "pending"

\* C30 (as the code has it): each of the five invokes op exactly once and
\* never raises; a Promise one of them returns never rejects; a failure of
\* op (a throw, or a rejection of the Promise op returned) ends up in the
\* failure form of the wrapper or tuple, but for goifySync only a throw
\* does: a Promise op returned is handed back in the value slot of a
\* success tuple as it is, and may reject.
C30_FailureCapturedUnlessSyncOnPending ==
    last.op \in Builders =>
        /\ Len(calls) = 1
        /\ last.kind = "return"
        /\ IsPromise(heap, last.ret) => heap[last.ret.id].st # "rejected"
        /\ (OperationFailed /\ Delivered /\ ~SyncOnPending) =>
                IsFailureOf(heap, last.op, Final, OperationFailure)
        /\ SyncOnPending => last.ret = Tuple(Ref(OperationPromise), Null)

\* buildSafeResult was given an operation whose Promise rejected with
\* Error("boom"): its own Promise fulfilled with a SafeResult holding "boom"
C30_Witness ==
    /\ last.op = "buildSafeResult"
    /\ last.fn.fk = "pending"
    /\ heap[OperationPromise].st = "rejected"
    /\ heap[last.ret.id].st = "fulfilled"
    /\ IsFailureOf(heap, last.op, Final, ErrorObj("boom"))
    /\ heap[Final.id].result = [error |-> Str("boom")]

====
